---- MODULE Spec2Model ----
(***************************************************************************)
(* Verification model of babybot's sandbox orchestration core:             *)
(*   - GroupQueue        (src/src/group-queue.ts)                          *)
(*   - mount security    (src/unnamed/part_011, src/src/container-runner.ts)*)
(*   - IPC authorization (src/unnamed/part_010)                            *)
(***************************************************************************)
EXTENDS Integers, Sequences, FiniteSets, Bags, TLC

(***************************************************************************)
(* Bounds of the model and program constants                               *)
(***************************************************************************)
NumGroups == 4
MaxEnqueues == 4

MAX_CONCURRENT_CONTAINERS == 2
MAX_RETRIES == 5
BASE_RETRY_MS == 5000

\* Failing runs that are followed: enough for one group to use up its
\* retries and be dropped.
MaxFailures == MAX_RETRIES + 1

Groups == 1..NumGroups

\* state.groupFolder of a group without a registered folder (null); the
\* folder of group g is written g.
NO_FOLDER == 0
Outcomes == {"true", "false", "throw"}

RECURSIVE Pow2(_)
Pow2(n) == IF n <= 0 THEN 1 ELSE 2 * Pow2(n - 1)

Min(a, b) == IF a < b THEN a ELSE b

(***************************************************************************)
(* GroupQueue state.  `inProgress' is the number of invocations of the     *)
(* processing callback that have been started and have not settled yet.    *)
(* `timers' is the bag of outstanding setTimeout callbacks of scheduleRetry.*)
(* Variables starting with h are history variables: they record what       *)
(* happened and are never read by the operations.  hThrown tells whether   *)
(* a step RunThrows has happened, hEscaped counts the exceptions that left *)
(* runForGroup.                                                            *)
(***************************************************************************)
VARIABLES processMessagesFn, active, pendingMessages, retryCount, groupFolder,
          waitingGroups, activeCount, inProgress, timers,
          hInvocations, hEnqueueCalls, hEnqueuedDuringRun, hEverSucceeded,
          hNullRuns, hConsecutiveFailures, hWaitOrder, hCompletions, hFailures,
          hThrown, hEscaped

qvars == <<processMessagesFn, active, pendingMessages, retryCount, groupFolder,
           waitingGroups, activeCount, inProgress, timers,
           hInvocations, hEnqueueCalls, hEnqueuedDuringRun, hEverSucceeded,
           hNullRuns, hConsecutiveFailures, hWaitOrder, hCompletions, hFailures,
           hThrown, hEscaped>>



\* Inputs and result of one call of isPathAllowed.
VARIABLES argHostPath, argAllowlistPaths, pathAllowedReturn

pvars == <<argHostPath, argAllowlistPaths, pathAllowedReturn>>

\* Inputs and result of one call of loadMountAllowlist.
VARIABLES argAllowlistFile, argFallbackPaths, loadReturn

lvars == <<argAllowlistFile, argFallbackPaths, loadReturn>>

\* Inputs and progress of one call of runContainerAgent.
VARIABLES argLaunch, launch

cvars == <<argLaunch, launch>>

\* The IPC bus: the host's registered groups (jid -> folder), the task
\* table, the messages handed to the channel per chat, the metadata syncs
\* and snapshot writes requested, the request files waiting in the
\* namespaces and the files in the errors folder; blocked is the bag of
\* "blocked unauthorized" warnings logged (origin namespace, kind).
VARIABLES registeredGroups, tasks, nextTaskId, delivered, syncCalls,
          snapshotWrites, blocked, inbound, quarantine, filesWritten

ivars == <<registeredGroups, tasks, nextTaskId, delivered, syncCalls,
           snapshotWrites, blocked, inbound, quarantine, filesWritten>>

\* The poll loop of the IPC watcher: the module flag, the poll loops that
\* exist (each with its phase, its position in the scan and the names
\* listed for the folder in hand), and a history of the starts requested,
\* the request files placed, those handed to a handler, and those whose
\* handling raised.
VARIABLES ipcWatcherRunning, pollers, hStartCalls, hPlaced, hHanded, hRaised,
          hOwed

wvars == <<ipcWatcherRunning, pollers, hStartCalls, hPlaced, hHanded, hRaised,
           hOwed>>

\* Inputs and result of one comparison of the streaming frame parser: the
\* bytes the sandbox writes to stdout, the offsets at which the stream is
\* cut into chunks, and the frames obtained chunk by chunk and at once.
VARIABLES argStream, argCuts, framesReturn

fvars == <<argStream, argCuts, framesReturn>>

\* One run of runContainerAgent after its mounts were validated: the state
\* of the child process, whether a frame callback was given, the locals of
\* the promise executor (parseBuffer, stdout, stdoutTruncated, outputChain,
\* hadStreamingOutput, timedOut, timeout), the frame callbacks in progress,
\* the code reported by close, whether resolve waits for outputChain, the
\* value the promise resolved with, whether an error event found no
\* listener, and a history of the frames parsed, of the callbacks invoked
\* and of the number of data events; the stderr buffer; and a history of
\* the characters received on stdout, of those appended to parseBuffer and
\* of the calls of resetTimeout; and the child's stdin: the inputs written
\* to it and whether it was ended.
VARIABLES procState, onOutputGiven, parseBuffer, stdout, stdoutTruncated,
          outputChain, callbacks, hadStreamingOutput, timedOut, timeout,
          closeCode, awaitingChain, resolved, uncaughtException,
          hParsed, hInvoked, hChunks, stderr, hReceived, hFed, hTimerStarts,
          stdin

rvars == <<procState, onOutputGiven, parseBuffer, stdout, stdoutTruncated,
           outputChain, callbacks, hadStreamingOutput, timedOut, timeout,
           closeCode, awaitingChain, resolved, uncaughtException,
           hParsed, hInvoked, hChunks, stderr, hReceived, hFed, hTimerStarts,
           stdin>>

\* The files of the IPC namespaces with the way each one came to its name,
\* the position of a writer inside a write, what readers have seen, the
\* last return of sendMessage or closeStdin, and the number of calls made.
VARIABLES fsFiles, writer, hObserved, pipeReturn, hPipeCalls

xvars == <<fsFiles, writer, hObserved, pipeReturn, hPipeCalls>>

\* Inputs and result of one call of getRuntimeStrategy.
VARIABLES argConfigured, argDetected, strategyReturn

svars == <<argConfigured, argDetected, strategyReturn>>

\* The machine on which main() starts, and how far startup got.
VARIABLES argEnv, startup

evars == <<argEnv, startup>>

\* EnhancedIPCSystem for one message: whether it asks for an ack, whether
\* an ERROR handler is registered, the entry of pendingAcks, the armed ack
\* timers, the calls of handleAckTimeout that wait for RETRY_DELAY, and a
\* history of the writes of the message, of the error notifications and of
\* the ack.
VARIABLES requiresAck, errorHandler, pendingAcks, ackTimeouts, nextTimeout,
          delayed, hSent, hErrors, hAcked

avars == <<requiresAck, errorHandler, pendingAcks, ackTimeouts, nextTimeout,
           delayed, hSent, hErrors, hAcked>>

\* AgentSwarm: the agents in the order of the map, the task queue, and the
\* tasks that the latest call of assignTasks assigned, in that order.
VARIABLES agents, taskQueue, hAssigned

mvars == <<agents, taskQueue, hAssigned>>

\* The input loop of the sandbox of one run: where its main is (not
\* started, first prompt, waiting for input, prompt, exited) and the piped
\* messages it has turned into prompts, by the number of the call that
\* wrote them.
VARIABLES sandbox

uvars == <<sandbox>>

vars == <<qvars, pvars, lvars, cvars, ivars, wvars, fvars, rvars, xvars, svars, evars, avars, mvars, uvars>>

\* What the actions of one component leave alone.
qOthers == <<pvars, lvars, cvars, ivars, wvars, fvars, rvars, xvars, svars, evars, avars, mvars, uvars>>
pOthers == <<qvars, lvars, cvars, ivars, wvars, fvars, rvars, xvars, svars, evars, avars, mvars, uvars>>
lOthers == <<qvars, pvars, cvars, ivars, wvars, fvars, rvars, xvars, svars, evars, avars, mvars, uvars>>
cOthers == <<qvars, pvars, lvars, ivars, wvars, fvars, rvars, xvars, svars, evars, avars, mvars, uvars>>
iOthers == <<qvars, pvars, lvars, cvars, fvars, rvars, xvars, svars, evars, avars, mvars, uvars>>
rOthers == <<qvars, pvars, lvars, cvars, ivars, wvars, fvars, xvars, svars, evars, avars, mvars, uvars>>
xOthers == <<qvars, pvars, lvars, cvars, ivars, wvars, fvars, rvars, svars, evars, avars, mvars, uvars>>
fOthers == <<qvars, pvars, lvars, cvars, ivars, wvars, rvars, xvars, svars, evars, avars, mvars, uvars>>
sOthers == <<qvars, pvars, lvars, cvars, ivars, wvars, fvars, rvars, xvars, evars, avars, mvars, uvars>>
eOthers == <<qvars, pvars, lvars, cvars, ivars, wvars, fvars, rvars, xvars, svars, avars, mvars, uvars>>
aOthers == <<qvars, pvars, lvars, cvars, ivars, wvars, fvars, rvars, xvars, svars, evars, mvars, uvars>>
mOthers == <<qvars, pvars, lvars, cvars, ivars, wvars, fvars, rvars, xvars, svars, evars, avars, uvars>>
uOthers == <<qvars, pvars, lvars, cvars, ivars, wvars, fvars, rvars, xvars, svars, evars, avars, mvars>>
uxOthers == <<qvars, pvars, lvars, cvars, ivars, wvars, fvars, rvars, svars, evars, avars, mvars>>

\* The queue as one value, so that the methods can call each other.
Q == [processMessagesFn |-> processMessagesFn, active |-> active,
      pendingMessages |-> pendingMessages, retryCount |-> retryCount,
      groupFolder |-> groupFolder,
      waitingGroups |-> waitingGroups, activeCount |-> activeCount,
      inProgress |-> inProgress, timers |-> timers,
      hInvocations |-> hInvocations, hEnqueueCalls |-> hEnqueueCalls,
      hEnqueuedDuringRun |-> hEnqueuedDuringRun,
      hEverSucceeded |-> hEverSucceeded, hNullRuns |-> hNullRuns,
      hConsecutiveFailures |-> hConsecutiveFailures,
      hWaitOrder |-> hWaitOrder, hCompletions |-> hCompletions,
      hFailures |-> hFailures, hThrown |-> hThrown, hEscaped |-> hEscaped]

SetQ(q) ==
    /\ processMessagesFn' = q.processMessagesFn
    /\ active' = q.active
    /\ pendingMessages' = q.pendingMessages
    /\ retryCount' = q.retryCount
    /\ groupFolder' = q.groupFolder
    /\ waitingGroups' = q.waitingGroups
    /\ activeCount' = q.activeCount
    /\ inProgress' = q.inProgress
    /\ timers' = q.timers
    /\ hInvocations' = q.hInvocations
    /\ hEnqueueCalls' = q.hEnqueueCalls
    /\ hEnqueuedDuringRun' = q.hEnqueuedDuringRun
    /\ hEverSucceeded' = q.hEverSucceeded
    /\ hNullRuns' = q.hNullRuns
    /\ hConsecutiveFailures' = q.hConsecutiveFailures
    /\ hWaitOrder' = q.hWaitOrder
    /\ hCompletions' = q.hCompletions
    /\ hFailures' = q.hFailures
    /\ hThrown' = q.hThrown
    /\ hEscaped' = q.hEscaped
    /\ UNCHANGED qOthers

Includes(s, x) == \E i \in 1..Len(s) : s[i] = x

Without(s, x) == SelectSeq(s, LAMBDA y : y # x)

\* new GroupQueue(): empty map (every group reads as the default state of
\* getGroup), empty wait list, activeCount 0, no callback configured.
QInit ==
    /\ processMessagesFn = FALSE
    /\ active = [g \in Groups |-> FALSE]
    /\ pendingMessages = [g \in Groups |-> FALSE]
    /\ retryCount = [g \in Groups |-> 0]
    /\ groupFolder = [g \in Groups |-> NO_FOLDER]
    /\ waitingGroups = <<>>
    /\ activeCount = 0
    /\ inProgress = [g \in Groups |-> 0]
    /\ timers = EmptyBag
    /\ hInvocations = [g \in Groups |-> 0]
    /\ hEnqueueCalls = [g \in Groups |-> 0]
    /\ hEnqueuedDuringRun = [g \in Groups |-> 0]
    /\ hEverSucceeded = [g \in Groups |-> FALSE]
    /\ hNullRuns = [g \in Groups |-> 0]
    /\ hConsecutiveFailures = [g \in Groups |-> 0]
    /\ hWaitOrder = <<>>
    /\ hCompletions = 0
    /\ hFailures = 0
    /\ hThrown = FALSE
    /\ hEscaped = 0

RECURSIVE runForGroup(_, _), drainGroup(_, _), drainWaiting(_)

\* finally-block of runForGroup followed by drainGroup.
runFinally(q, g) ==
    drainGroup([q EXCEPT !.active[g] = FALSE,
                         !.groupFolder[g] = NO_FOLDER,
                         !.activeCount = @ - 1], g)

\* runForGroup up to its first suspension point: with a callback configured
\* it stops at the await; without one it returns at once and runs `finally'.
runForGroup(q, g) ==
    LET started == [q EXCEPT !.active[g] = TRUE,
                             !.pendingMessages[g] = FALSE,
                             !.activeCount = @ + 1,
                             !.hEnqueuedDuringRun[g] = 0,
                             !.hWaitOrder = Without(@, g)]
    IN IF ~q.processMessagesFn
       THEN runFinally([started EXCEPT !.hNullRuns[g] = @ + 1], g)
       ELSE [started EXCEPT !.inProgress[g] = @ + 1,
                            !.hInvocations[g] = @ + 1]

\* Variant of drainWaiting that takes the most recently queued group first.
drainWaiting_lifo(q) ==
    IF Len(q.waitingGroups) > 0 /\ q.activeCount < MAX_CONCURRENT_CONTAINERS
    THEN LET n == Len(q.waitingGroups)
             g == q.waitingGroups[n]
             popped == [q EXCEPT !.waitingGroups = SubSeq(@, 1, n - 1)]
         IN IF popped.pendingMessages[g]
            THEN drainWaiting(runForGroup(popped, g))
            ELSE drainWaiting(popped)
    ELSE q

drainWaiting(q) ==
    IF Len(q.waitingGroups) > 0 /\ q.activeCount < MAX_CONCURRENT_CONTAINERS
    THEN LET g == Head(q.waitingGroups)
             shifted == [q EXCEPT !.waitingGroups = Tail(@)]
         IN IF shifted.pendingMessages[g]
            THEN drainWaiting(runForGroup(shifted, g))
            ELSE drainWaiting(shifted)
    ELSE q

\* Variant of drainGroup that does not go on to the wait list.
drainGroup_skipsWaiting(q, g) ==
    IF q.pendingMessages[g]
    THEN runForGroup(q, g)
    ELSE q

\* Variant of drainGroup that forgets the group's own pending flag.
drainGroup_ignoresPending(q, g) == drainWaiting(q)

drainGroup(q, g) ==
    IF q.pendingMessages[g]
    THEN runForGroup(q, g)
    ELSE drainWaiting(q)

\* Variant of enqueueMessageCheck without the `state.active' early return.
enqueueMessageCheck_noActiveCheck(q, g) ==
    IF q.activeCount >= MAX_CONCURRENT_CONTAINERS
    THEN [q EXCEPT !.pendingMessages[g] = TRUE,
                   !.waitingGroups = IF Includes(@, g) THEN @ ELSE Append(@, g),
                   !.hWaitOrder = IF q.pendingMessages[g] THEN @ ELSE Append(@, g)]
    ELSE runForGroup(q, g)

\* Variant of enqueueMessageCheck without the concurrency-limit branch.
enqueueMessageCheck_noCeiling(q, g) ==
    IF q.active[g]
    THEN [q EXCEPT !.pendingMessages[g] = TRUE,
                   !.hEnqueuedDuringRun[g] = @ + 1]
    ELSE runForGroup(q, g)

\* Variant of enqueueMessageCheck that sets the flag at the concurrency
\* limit without putting the group on the wait list.
enqueueMessageCheck_noWaitList(q, g) ==
    IF q.active[g]
    THEN [q EXCEPT !.pendingMessages[g] = TRUE,
                   !.hEnqueuedDuringRun[g] = @ + 1]
    ELSE IF q.activeCount >= MAX_CONCURRENT_CONTAINERS
    THEN [q EXCEPT !.pendingMessages[g] = TRUE]
    ELSE runForGroup(q, g)

\* Variant of enqueueMessageCheck that pushes without the includes test.
enqueueMessageCheck_alwaysPush(q, g) ==
    IF q.active[g]
    THEN [q EXCEPT !.pendingMessages[g] = TRUE,
                   !.hEnqueuedDuringRun[g] = @ + 1]
    ELSE IF q.activeCount >= MAX_CONCURRENT_CONTAINERS
    THEN [q EXCEPT !.pendingMessages[g] = TRUE,
                   !.waitingGroups = Append(@, g),
                   !.hWaitOrder = IF q.pendingMessages[g] THEN @ ELSE Append(@, g)]
    ELSE runForGroup(q, g)

enqueueMessageCheck(q, g) ==
    IF q.active[g]
    THEN [q EXCEPT !.pendingMessages[g] = TRUE,
                   !.hEnqueuedDuringRun[g] = @ + 1]
    ELSE IF q.activeCount >= MAX_CONCURRENT_CONTAINERS
    THEN [q EXCEPT !.pendingMessages[g] = TRUE,
                   !.waitingGroups = IF Includes(@, g) THEN @ ELSE Append(@, g),
                   !.hWaitOrder = IF q.pendingMessages[g] THEN @ ELSE Append(@, g)]
    ELSE runForGroup(q, g)

\* Variant of the delay computation with the exponent off by one.
retryDelayMs_offByOne(count) == BASE_RETRY_MS * Pow2(count)

retryDelayMs(count) == BASE_RETRY_MS * Pow2(count - 1)

\* Variant of scheduleRetry without the MAX_RETRIES cut-off.
scheduleRetry_noCap(q, g) ==
    LET count == q.retryCount[g] + 1
        k == q.hConsecutiveFailures[g] + 1
    IN [q EXCEPT !.retryCount[g] = count,
                 !.hConsecutiveFailures[g] = k,
                 !.timers = @ (+) SetToBag({[groupJid |-> g,
                                             delayMs |-> retryDelayMs(count),
                                             k |-> k]})]

scheduleRetry(q, g) ==
    LET count == q.retryCount[g] + 1
        k == q.hConsecutiveFailures[g] + 1
    IN IF count > MAX_RETRIES
       THEN [q EXCEPT !.retryCount[g] = 0, !.hConsecutiveFailures[g] = 0]
       ELSE [q EXCEPT !.retryCount[g] = count,
                      !.hConsecutiveFailures[g] = k,
                      !.timers = @ (+) SetToBag({[groupJid |-> g,
                                                  delayMs |-> retryDelayMs(count),
                                                  k |-> k]})]

\* Variant of the continuation without the catch clause: a throw of the
\* callback skips scheduleRetry, runs finally and leaves runForGroup.
settle_noCatch(q, g, outcome) ==
    LET done == [q EXCEPT !.inProgress[g] = @ - 1, !.hCompletions = 1]
        handled == IF outcome = "throw"
                   THEN [done EXCEPT !.hFailures = @ + 1, !.hEscaped = @ + 1]
                   ELSE IF outcome = "true"
                   THEN [done EXCEPT !.retryCount[g] = 0,
                                     !.hConsecutiveFailures[g] = 0,
                                     !.hEverSucceeded[g] = TRUE]
                   ELSE scheduleRetry([done EXCEPT !.hFailures = @ + 1], g)
    IN runFinally(handled, g)

\* The continuation of runForGroup after the await: try (success resets
\* the retry count, false schedules a retry), catch (a throw schedules a
\* retry), then finally.
settle(q, g, outcome) ==
    LET done == [q EXCEPT !.inProgress[g] = @ - 1, !.hCompletions = 1]
        handled == IF outcome = "throw"
                   THEN scheduleRetry([done EXCEPT !.hFailures = @ + 1], g)
                   ELSE IF outcome = "true"
                   THEN [done EXCEPT !.retryCount[g] = 0,
                                     !.hConsecutiveFailures[g] = 0,
                                     !.hEverSucceeded[g] = TRUE]
                   ELSE scheduleRetry([done EXCEPT !.hFailures = @ + 1], g)
    IN runFinally(handled, g)

(***************************************************************************)
(* Actions of the queue                                                    *)
(***************************************************************************)
RECURSIVE SumUpTo(_, _)
SumUpTo(f, n) == IF n = 0 THEN 0 ELSE f[n] + SumUpTo(f, n - 1)

TotalEnqueueCalls == SumUpTo(hEnqueueCalls, NumGroups)

SetProcessMessagesFn ==
    /\ ~processMessagesFn
    /\ SetQ([Q EXCEPT !.processMessagesFn = TRUE])

\* The host calls enqueueMessageCheck for a group.  The groups are
\* interchangeable, so they are numbered in the order of their first call.
Enqueue(g) ==
    /\ TotalEnqueueCalls < MaxEnqueues
    /\ \A h \in 1..(g - 1) : hEnqueueCalls[h] > 0
    /\ SetQ(enqueueMessageCheck([Q EXCEPT !.hEnqueueCalls[g] = @ + 1], g))

RunSettles(g, outcome) ==
    /\ inProgress[g] > 0
    /\ outcome # "true" => hFailures < MaxFailures
    /\ SetQ(settle(Q, g, outcome))

\* The callback of a run throws or rejects; the step is noted in hThrown.
RunThrows(g) ==
    /\ inProgress[g] > 0
    /\ hFailures < MaxFailures
    /\ SetQ([settle(Q, g, "throw") EXCEPT !.hThrown = TRUE])

RetryTimerFires(t) ==
    /\ BagIn(t, timers)
    /\ SetQ(enqueueMessageCheck([Q EXCEPT !.timers = @ (-) SetToBag({t})], t.groupJid))


(***************************************************************************)
(* Properties of GroupQueue                                                *)
(***************************************************************************)
TimersOf(g) == {t \in BagToSet(timers) : t.groupJid = g}

EnqueuedGroups == {g \in Groups : hEnqueueCalls[g] > 0}

NoNullRuns == \A g \in Groups : hNullRuns[g] = 0

\* C1: single flight - for every group at most one invocation of the
\* processing callback is in progress at any time, and the active flag is
\* set exactly while one is.
C1_SingleFlight ==
    \A g \in Groups : inProgress[g] <= 1 /\ (active[g] <=> inProgress[g] = 1)

\* A group whose run is in progress has been enqueued again during that run,
\* after an earlier run of it had already settled.
C1_Witness ==
    \E g \in Groups :
        inProgress[g] = 1 /\ hEnqueuedDuringRun[g] >= 1 /\ hInvocations[g] >= 2

\* C2: the number of runs in progress, which activeCount tracks, never
\* exceeds MAX_CONCURRENT_CONTAINERS.
C2_Ceiling ==
    /\ activeCount <= MAX_CONCURRENT_CONTAINERS
    /\ SumUpTo(inProgress, NumGroups) <= MAX_CONCURRENT_CONTAINERS
    /\ SumUpTo(inProgress, NumGroups) = activeCount

\* The ceiling is reached again after a run has settled, while more groups
\* than the ceiling have been enqueued and one of them still waits.
C2_Witness ==
    /\ activeCount = MAX_CONCURRENT_CONTAINERS
    /\ Cardinality(EnqueuedGroups) > MAX_CONCURRENT_CONTAINERS
    /\ Len(waitingGroups) > 0
    /\ hCompletions = 1

\* C3: when a run of a group succeeds, exactly one further run of that group
\* starts in the completion handler if enqueue was called (any number of
\* times) during the run, and none starts if it was not called.
C3_Coalescing ==
    [][\A g \in Groups :
          (inProgress[g] = 1 /\ timers' = timers /\ hEnqueueCalls' = hEnqueueCalls
              /\ RunSettles(g, "true")) =>
             IF hEnqueuedDuringRun[g] >= 1
             THEN /\ hInvocations'[g] = hInvocations[g] + 1
                  /\ inProgress'[g] = 1
                  /\ ~pendingMessages'[g]
             ELSE /\ hInvocations'[g] = hInvocations[g]
                  /\ inProgress'[g] = 0]_vars

\* Three enqueue calls for one group produced two runs: the first succeeded
\* with two calls coalesced during it, the second has settled as well, and
\* nothing more is scheduled for the group.
C3_Witness ==
    \E g \in Groups :
        /\ hEnqueueCalls[g] = 3 /\ hNullRuns[g] = 0
        /\ hInvocations[g] = 2 /\ inProgress[g] = 0
        /\ hEverSucceeded[g] /\ hFailures = 0
        /\ ~pendingMessages[g] /\ TimersOf(g) = {}

\* C4: a group that was enqueued once and whose runs all fail has its
\* callback invoked MAX_RETRIES + 1 times in all: never more, and it is not
\* at rest before reaching that number; after the last failure retryCount is
\* 0, no retry timer is outstanding and the group is neither pending nor
\* waiting.
C4_BoundedRetry ==
    \A g \in Groups :
        (hEnqueueCalls[g] = 1 /\ hNullRuns[g] = 0 /\ ~hEverSucceeded[g]) =>
            /\ hInvocations[g] <= MAX_RETRIES + 1
            /\ (inProgress[g] = 0 /\ TimersOf(g) = {} /\ ~pendingMessages[g])
                  => hInvocations[g] = MAX_RETRIES + 1
            /\ (hInvocations[g] = MAX_RETRIES + 1 /\ inProgress[g] = 0)
                  => /\ retryCount[g] = 0
                     /\ TimersOf(g) = {}
                     /\ ~pendingMessages[g]
                     /\ ~Includes(waitingGroups, g)

\* The sixth run of a group enqueued once has failed.
C4_Witness ==
    \E g \in Groups :
        /\ hEnqueueCalls[g] = 1 /\ hNullRuns[g] = 0 /\ ~hEverSucceeded[g]
        /\ hInvocations[g] = MAX_RETRIES + 1 /\ inProgress[g] = 0

ExpectedDelayMs(k) ==
    CASE k = 1 -> 5000 [] k = 2 -> 10000 [] k = 3 -> 20000
      [] k = 4 -> 40000 [] k = 5 -> 80000 [] OTHER -> -1

\* C5: the retry timer set after the k-th consecutive failure of a group
\* (1 <= k <= MAX_RETRIES) has delay BASE_RETRY_MS * 2^(k-1), that is 5, 10,
\* 20, 40, 80 seconds; retryCount is the number of consecutive failures
\* since the last success or cap reset, and is 0 right after a success.
C5_BackoffDelay ==
    /\ \A t \in BagToSet(timers) :
          t.k \in 1..MAX_RETRIES /\ t.delayMs = ExpectedDelayMs(t.k)
    /\ \A g \in Groups : retryCount[g] = hConsecutiveFailures[g]

\* A group that succeeded earlier has failed five times in a row since and
\* waits for its 80 s retry.
C5_Witness ==
    \E t \in BagToSet(timers) :
        t.k = MAX_RETRIES /\ t.delayMs = 80000 /\ hEverSucceeded[t.groupJid]

\* The first n groups of the arrival order.
Prefix(s, n) == {s[i] : i \in 1..n}

\* C6: in a burst (no run has settled yet) exactly min(#groups, ceiling) runs
\* are started and every other enqueued group waits once; the wait list
\* holds the waiting groups in the order of their first enqueue; a run that
\* settles with its own pending flag clear starts the longest-waiting groups
\* first, as many as capacity allows, and removes them from the wait list.
C6_BurstAndFifoDrain ==
    /\ [](/\ waitingGroups = hWaitOrder
          /\ \A i, j \in 1..Len(waitingGroups) :
                i # j => waitingGroups[i] # waitingGroups[j]
          /\ (hCompletions = 0 /\ NoNullRuns) =>
                /\ activeCount = Min(Cardinality(EnqueuedGroups),
                                     MAX_CONCURRENT_CONTAINERS)
                /\ Len(waitingGroups) = Cardinality(EnqueuedGroups) - activeCount
                /\ \A g \in EnqueuedGroups :
                      (inProgress[g] = 1) # Includes(waitingGroups, g))
    /\ [][\A g \in Groups :
            (inProgress[g] = 1 /\ inProgress'[g] = 0 /\ ~pendingMessages[g]) =>
               \/ LET n == Min(Len(hWaitOrder),
                               MAX_CONCURRENT_CONTAINERS - (activeCount - 1))
                  IN /\ waitingGroups' = SubSeq(hWaitOrder, n + 1, Len(hWaitOrder))
                     /\ \A h \in Groups :
                           IF h \in Prefix(hWaitOrder, n)
                           THEN hInvocations'[h] = hInvocations[h] + 1
                                /\ inProgress'[h] = 1
                           ELSE hInvocations'[h] = hInvocations[h]
               \/ ~\E o \in Outcomes : RunSettles(g, o)]_vars

\* Ceiling 2: four groups were enqueued once each, two started at once, two
\* waited, and after two completions all four have started and the wait
\* list is empty.
C6_Witness ==
    /\ Cardinality({g \in Groups : hEnqueueCalls[g] = 1 /\ hInvocations[g] = 1}) = 4
    /\ waitingGroups = <<>>
    /\ hFailures = 0 /\ NoNullRuns
    /\ activeCount = MAX_CONCURRENT_CONTAINERS

(***************************************************************************)
(* Paths.  A path string is modelled by its segments, and a segment by its *)
(* characters, so that string tests of the code (startsWith, isAbsolute)   *)
(* are computed on characters.  abs tells whether the string starts with   *)
(* "/"; the empty string is the relative path without segments.            *)
(*   r = project root (process.cwd()), g = groups, d = data, i = ipc,      *)
(*   s = sessions, e = env, .c = .claude, G = global, m = main             *)
(***************************************************************************)
MaxCandidateDepth == 3
MaxAllowDepth == 2
MaxAllowEntries == 2

DOT == <<".">>
DOTDOT == <<".", ".">>

CandidateNames == {DOT, DOTDOT, <<"g">>, <<"g", "-">>, <<".", ".", "x">>, <<"x">>}
AllowNames == {<<"g">>, <<"x">>}

RECURSIVE SeqsUpTo(_, _)
SeqsUpTo(S, n) ==
    IF n = 0 THEN {<<>>}
    ELSE LET shorter == SeqsUpTo(S, n - 1)
         IN shorter \cup {Append(t, x) : t \in shorter, x \in S}

AbsPath(segs) == [abs |-> TRUE, segs |-> segs]
RelPath(segs) == [abs |-> FALSE, segs |-> segs]
EMPTY_STRING == RelPath(<<>>)

Cwd == <<<<"r">>>>
PROJECT_ROOT == AbsPath(Cwd)
GROUPS_DIR == AbsPath(<<<<"r">>, <<"g">>>>)
DATA_DIR == AbsPath(<<<<"r">>, <<"d">>>>)

\* Normalisation of a segment list: "." is dropped, ".." removes the segment
\* before it (and is dropped at the root).
RECURSIVE normalizeSegments(_, _)
normalizeSegments(segs, acc) ==
    IF segs = <<>> THEN acc
    ELSE LET h == Head(segs)
         IN IF h = DOT THEN normalizeSegments(Tail(segs), acc)
            ELSE IF h = DOTDOT
            THEN normalizeSegments(Tail(segs),
                     IF acc = <<>> THEN acc ELSE SubSeq(acc, 1, Len(acc) - 1))
            ELSE normalizeSegments(Tail(segs), Append(acc, h))

\* path.resolve(p): relative paths are taken from the working directory.
pathResolve(p) ==
    AbsPath(normalizeSegments(IF p.abs THEN p.segs ELSE Cwd \o p.segs, <<>>))

\* path.join(base, rel) for an absolute base.
pathJoin(base, relSegs) == AbsPath(normalizeSegments(base.segs \o relSegs, <<>>))

RECURSIVE commonPrefixLen(_, _)
commonPrefixLen(a, b) ==
    IF a = <<>> \/ b = <<>> \/ Head(a) # Head(b) THEN 0
    ELSE 1 + commonPrefixLen(Tail(a), Tail(b))

\* The characters of segments joined with "/".
RECURSIVE joinChars(_)
joinChars(segs) ==
    IF segs = <<>> THEN <<>>
    ELSE IF Len(segs) = 1 THEN Head(segs)
    ELSE Head(segs) \o <<"/">> \o joinChars(Tail(segs))

\* path.relative(from, to) of two resolved paths, as a string of characters:
\* one ".." for every segment of `from' below the common prefix, then the
\* rest of `to'.
pathRelative(from, to) ==
    LET c == commonPrefixLen(from.segs, to.segs)
        ups == [i \in 1..(Len(from.segs) - c) |-> DOTDOT]
        rest == SubSeq(to.segs, c + 1, Len(to.segs))
    IN joinChars(ups \o rest)

startsWithDotDot(str) == Len(str) >= 2 /\ str[1] = "." /\ str[2] = "."

isAbsoluteString(str) == Len(str) >= 1 /\ str[1] = "/"

\* One iteration of the loop of isPathAllowed.
entryAllows(hostPath, allowedPath) ==
    LET relative == pathRelative(pathResolve(allowedPath), pathResolve(hostPath))
    IN relative = <<>> \/ (~startsWithDotDot(relative) /\ ~isAbsoluteString(relative))

RECURSIVE isPathAllowed(_, _)
isPathAllowed(hostPath, allowlistPaths) ==
    IF allowlistPaths = <<>> THEN FALSE
    ELSE IF entryAllows(hostPath, Head(allowlistPaths)) THEN TRUE
    ELSE isPathAllowed(hostPath, Tail(allowlistPaths))

(***************************************************************************)
(* isPathAllowed applied to bounded inputs                                 *)
(***************************************************************************)
CandidatePaths ==
    {[abs |-> a, segs |-> t] : a \in BOOLEAN,
                               t \in SeqsUpTo(CandidateNames, MaxCandidateDepth)}
       \ {EMPTY_STRING}

AllowEntries == {AbsPath(t) : t \in SeqsUpTo(AllowNames, MaxAllowDepth)}

Allowlists == SeqsUpTo(AllowEntries, MaxAllowEntries) \ {<<>>}

NotCalled == [called |-> FALSE, value |-> FALSE]
Returned(v) == [called |-> TRUE, value |-> v]

PIdle ==
    /\ argHostPath = EMPTY_STRING
    /\ argAllowlistPaths = <<>>
    /\ pathAllowedReturn = NotCalled

PInit ==
    /\ argHostPath \in CandidatePaths
    /\ argAllowlistPaths \in Allowlists
    /\ pathAllowedReturn = NotCalled

CallIsPathAllowed ==
    /\ ~pathAllowedReturn.called
    /\ pathAllowedReturn' = Returned(isPathAllowed(argHostPath, argAllowlistPaths))
    /\ UNCHANGED <<argHostPath, argAllowlistPaths, pOthers>>


\* Segment-wise containment: `inner' equals `outer' or lies below it.
IsAtOrBelow(inner, outer) ==
    /\ Len(outer.segs) <= Len(inner.segs)
    /\ SubSeq(inner.segs, 1, Len(outer.segs)) = outer.segs

\* C8: isPathAllowed returns true if and only if the canonical candidate
\* equals a canonical allowlist entry or is a descendant of one along
\* segment boundaries, whatever the names of the segments below the entry.
C8_AllowedIffAtOrBelowEntry ==
    pathAllowedReturn.called =>
        (pathAllowedReturn.value <=>
            \E i \in 1..Len(argAllowlistPaths) :
                IsAtOrBelow(pathResolve(argHostPath), pathResolve(argAllowlistPaths[i])))

(***************************************************************************)
(* The mount allowlist file and loadMountAllowlist                         *)
(***************************************************************************)
MaxFileEntries == 2
MaxFallbackEntries == 2

\* An element of a parsed JSON array: a string (a path string, possibly
\* empty) or a value of another type.
StringEntry(p) == [isString |-> TRUE, str |-> p]
NON_STRING == [isString |-> FALSE, str |-> EMPTY_STRING]

FileEntries ==
    {NON_STRING, StringEntry(EMPTY_STRING), StringEntry(AbsPath(<<>>)),
     StringEntry(AbsPath(<<<<"x">>>>)), StringEntry(RelPath(<<<<"g">>>>))}

\* A parsed JSON document, as far as loadMountAllowlist looks at it:
\* an array, an object (with or without a "paths" member, which is an array
\* or not), or any other value (null, number, string, boolean).
JsonArray(items) ==
    [t |-> "array", hasPaths |-> FALSE, pathsIsArray |-> FALSE, items |-> items]
JsonObject(hasPaths, pathsIsArray, items) ==
    [t |-> "object", hasPaths |-> hasPaths, pathsIsArray |-> pathsIsArray,
     items |-> items]
JSON_OTHER ==
    [t |-> "other", hasPaths |-> FALSE, pathsIsArray |-> FALSE, items |-> <<>>]

JsonDocuments ==
    LET lists == SeqsUpTo(FileEntries, MaxFileEntries)
    IN {JsonArray(l) : l \in lists}
         \cup {JsonObject(TRUE, TRUE, l) : l \in lists}
         \cup {JsonObject(TRUE, FALSE, <<>>), JsonObject(FALSE, FALSE, <<>>),
               JSON_OTHER}

\* State of the file at MOUNT_ALLOWLIST_PATH.
FileWith(state, json) == [state |-> state, json |-> json]
AllowlistFiles ==
    {FileWith(st, JSON_OTHER) : st \in {"missing", "unreadable", "invalid json"}}
       \cup {FileWith("json", j) : j \in JsonDocuments}

FallbackPathStrings ==
    {EMPTY_STRING, PROJECT_ROOT, GROUPS_DIR, RelPath(<<<<"g">>>>)}

\* normalizePaths: skips falsy entries, resolves the others and keeps the
\* first occurrence of each resolved path, in order.
RECURSIVE normalizePaths(_, _)
normalizePaths(paths, unique) ==
    IF paths = <<>> THEN unique
    ELSE LET p == Head(paths)
         IN IF p = EMPTY_STRING
            THEN normalizePaths(Tail(paths), unique)
            ELSE normalizePaths(Tail(paths),
                     IF Includes(unique, pathResolve(p)) THEN unique
                     ELSE Append(unique, pathResolve(p)))

getDefaultAllowlist(projectRoot, groupsDir) ==
    normalizePaths(<<projectRoot, groupsDir>>, <<>>)

\* parsed.filter((entry) => typeof entry === 'string')
RECURSIVE filterStrings(_)
filterStrings(items) ==
    IF items = <<>> THEN <<>>
    ELSE IF Head(items).isString
    THEN <<Head(items).str>> \o filterStrings(Tail(items))
    ELSE filterStrings(Tail(items))

\* Variant of loadMountAllowlist that returns the list of the file even when
\* it is empty.
loadMountAllowlist_noEmptyCheck(file, fallbackPaths) ==
    LET fallback == normalizePaths(fallbackPaths, <<>>)
        list == normalizePaths(filterStrings(file.json.items), <<>>)
    IN IF file.state # "json" THEN fallback
       ELSE IF file.json.t = "array" THEN list
       ELSE IF file.json.t = "object" /\ file.json.hasPaths /\ file.json.pathsIsArray
       THEN list
       ELSE fallback

loadMountAllowlist(file, fallbackPaths) ==
    LET fallback == normalizePaths(fallbackPaths, <<>>)
        list == normalizePaths(filterStrings(file.json.items), <<>>)
    IN IF file.state = "missing" THEN fallback
       ELSE IF file.state \in {"unreadable", "invalid json"} THEN fallback
       ELSE IF file.json.t = "array"
       THEN (IF Len(list) > 0 THEN list ELSE fallback)
       ELSE IF file.json.t = "object" /\ file.json.hasPaths
       THEN (IF file.json.pathsIsArray
             THEN (IF Len(list) > 0 THEN list ELSE fallback)
             ELSE fallback)
       ELSE fallback

LIdle ==
    /\ argAllowlistFile = FileWith("missing", JSON_OTHER)
    /\ argFallbackPaths = <<>>
    /\ loadReturn = [called |-> FALSE, value |-> <<>>]

LInit ==
    /\ argAllowlistFile \in AllowlistFiles
    /\ argFallbackPaths \in SeqsUpTo(FallbackPathStrings, MaxFallbackEntries)
    /\ loadReturn = [called |-> FALSE, value |-> <<>>]

CallLoadMountAllowlist ==
    /\ ~loadReturn.called
    /\ loadReturn' = Returned(loadMountAllowlist(argAllowlistFile, argFallbackPaths))
    /\ UNCHANGED <<argAllowlistFile, argFallbackPaths, lOthers>>


SeqToSet(sq) == {sq[i] : i \in 1..Len(sq)}

\* The non-empty strings among the entries of the file.
UsableFileStrings(file) ==
    {e.str : e \in {x \in SeqToSet(file.json.items) : x.isString /\ x.str # EMPTY_STRING}}

\* The file gives no allowlist: missing, unreadable, not JSON, JSON of
\* another shape, or an array without a non-empty string.
GivesNoAllowlist(file) ==
    \/ file.state # "json"
    \/ file.json.t = "other"
    \/ file.json.t = "object" /\ ~(file.json.hasPaths /\ file.json.pathsIsArray)
    \/ UsableFileStrings(file) = {}

\* The fallback allowlist: the canonical paths of the non-empty fallback
\* strings.
CanonicalFallback ==
    {pathResolve(p) : p \in SeqToSet(argFallbackPaths) \ {EMPTY_STRING}}

ROOT == AbsPath(<<>>)

\* C9: whenever the file gives no allowlist, loadMountAllowlist returns the
\* fallback allowlist (each canonical fallback path once): the result is
\* not empty when the fallback is not, and it contains the root directory
\* only if the fallback does.
C9_FallbackWhenNoList ==
    (loadReturn.called /\ GivesNoAllowlist(argAllowlistFile)) =>
        /\ SeqToSet(loadReturn.value) = CanonicalFallback
        /\ Len(loadReturn.value) = Cardinality(CanonicalFallback)
        /\ CanonicalFallback # {} => loadReturn.value # <<>>
        /\ ROOT \in SeqToSet(loadReturn.value) => ROOT \in CanonicalFallback

\* The file holds {"paths": [...]} whose entries are an empty string and a
\* non-string, and the call returned the two default paths.
C9_Witness ==
    /\ loadReturn.called
    /\ argAllowlistFile.state = "json"
    /\ argAllowlistFile.json.t = "object"
    /\ Len(argAllowlistFile.json.items) = 2
    /\ UsableFileStrings(argAllowlistFile) = {}
    /\ SeqToSet(loadReturn.value) = {PROJECT_ROOT, GROUPS_DIR}

(***************************************************************************)
(* runContainerAgent up to the spawn of the sandbox process                *)
(***************************************************************************)
\* group.folder as given by the caller: a plain name, the main folder, and
\* names that climb out of the directory they are joined to.
GroupFolders ==
    {<<<<"x">>>>, <<<<"m">>>>, <<<<".", ".", "x">>>>,
     <<DOTDOT, <<"d">>>>, <<DOTDOT, DOTDOT, <<"e">>>>,
     <<<<"G">>>>, <<DOTDOT>>}

Runtimes == {"apple-container", "docker", "none"}

LaunchInputs ==
    [folder : GroupFolders, isMain : BOOLEAN, globalDirExists : BOOLEAN,
     envDirWritten : BOOLEAN, runtime : Runtimes, allowlistFile : AllowlistFiles]

Mount(hostPathOfMount, containerPath, readonly) ==
    [hostPath |-> hostPathOfMount, containerPath |-> containerPath,
     readonly |-> readonly]

\* The mounts buildVolumeMounts pushes, in order, before it validates them.
computedMounts(in) ==
    (IF in.isMain
     THEN <<Mount(PROJECT_ROOT, "/workspace/project", FALSE)>> ELSE <<>>)
    \o <<Mount(pathJoin(GROUPS_DIR, in.folder), "/workspace/group", FALSE)>>
    \o (IF in.globalDirExists
        THEN <<Mount(pathJoin(GROUPS_DIR, <<<<"G">>>>), "/workspace/global", ~in.isMain)>>
        ELSE <<>>)
    \o <<Mount(pathJoin(DATA_DIR, <<<<"i">>>> \o in.folder), "/workspace/ipc", FALSE)>>
    \o <<Mount(pathJoin(DATA_DIR, <<<<"s">>>> \o in.folder \o <<<<".", "c">>>>),
               "/home/node/.claude", FALSE)>>
    \o (IF in.envDirWritten
        THEN <<Mount(pathJoin(DATA_DIR, <<<<"e">>>> \o in.folder), "/workspace/env-dir", TRUE)>>
        ELSE <<>>)

\* The validation loop of buildVolumeMounts: TRUE iff it throws.
RECURSIVE validationThrows(_, _)
validationThrows(mounts, allowlist) ==
    IF mounts = <<>> THEN FALSE
    ELSE IF ~isPathAllowed(Head(mounts).hostPath, allowlist) THEN TRUE
    ELSE validationThrows(Tail(mounts), allowlist)

\* Variant of buildVolumeMounts whose validation stops after the first mount.
buildVolumeMounts_checksFirstOnly(in) ==
    LET mounts == computedMounts(in)
        allowlist == loadMountAllowlist(in.allowlistFile,
                         getDefaultAllowlist(PROJECT_ROOT, GROUPS_DIR))
    IN [mounts |-> mounts,
        threw |-> validationThrows(SubSeq(mounts, 1, 1), allowlist)]

buildVolumeMounts(in) ==
    LET mounts == computedMounts(in)
        allowlist == loadMountAllowlist(in.allowlistFile,
                         getDefaultAllowlist(PROJECT_ROOT, GROUPS_DIR))
    IN [mounts |-> mounts, threw |-> validationThrows(mounts, allowlist)]

\* runContainerAgent until the child process exists: without a runtime it
\* returns an error result; a throw of buildVolumeMounts rejects the call;
\* otherwise the process is spawned.
runContainerAgent(in) ==
    IF in.runtime = "none"
    THEN [called |-> TRUE, outcome |-> "no runtime", mounts |-> <<>>]
    ELSE LET built == buildVolumeMounts(in)
         IN IF built.threw
            THEN [called |-> TRUE, outcome |-> "threw", mounts |-> built.mounts]
            ELSE [called |-> TRUE, outcome |-> "spawned", mounts |-> built.mounts]

NoLaunch == [called |-> FALSE, outcome |-> "not called", mounts |-> <<>>]

CIdle ==
    /\ argLaunch = [folder |-> <<<<"x">>>>, isMain |-> FALSE,
                    globalDirExists |-> FALSE, envDirWritten |-> FALSE,
                    runtime |-> "none",
                    allowlistFile |-> FileWith("missing", JSON_OTHER)]
    /\ launch = NoLaunch

CInit ==
    /\ argLaunch \in LaunchInputs
    /\ launch = NoLaunch

CallRunContainerAgent ==
    /\ ~launch.called
    /\ launch' = runContainerAgent(argLaunch)
    /\ UNCHANGED <<argLaunch, cOthers>>


LoadedAllowlist ==
    loadMountAllowlist(argLaunch.allowlistFile, <<PROJECT_ROOT, GROUPS_DIR>>)

DisallowedMounts ==
    {m \in SeqToSet(computedMounts(argLaunch)) :
        ~isPathAllowed(m.hostPath, LoadedAllowlist)}

\* C7: a sandbox process is spawned only if every mount computed for the
\* launch satisfies isPathAllowed against the loaded allowlist; a launch with
\* a mount that does not is ended by an error and spawns nothing.
C7_SpawnOnlyWithAllowedMounts ==
    launch.called =>
        /\ launch.outcome = "spawned" =>
              /\ launch.mounts = computedMounts(argLaunch)
              /\ DisallowedMounts = {}
        /\ (argLaunch.runtime # "none" /\ DisallowedMounts # {}) =>
              launch.outcome = "threw"

GLOBAL_DIR == pathJoin(GROUPS_DIR, <<<<"G">>>>)

HostPathMounts(hostPathOfMount) ==
    {m \in SeqToSet(launch.mounts) : m.hostPath = hostPathOfMount}

\* C23: in a spawned launch of a non-main group no mount has the project
\* root as host path and every mount of the shared global directory is
\* read-only; in a spawned launch of the main group the project root is
\* mounted read-write and so is the global directory when it exists.
C23_MountPrivileges ==
    launch.outcome = "spawned" =>
        IF argLaunch.isMain
        THEN /\ \E m \in HostPathMounts(PROJECT_ROOT) : ~m.readonly
             /\ argLaunch.globalDirExists =>
                    \E m \in HostPathMounts(GLOBAL_DIR) : ~m.readonly
        ELSE /\ HostPathMounts(PROJECT_ROOT) = {}
             /\ \A m \in HostPathMounts(GLOBAL_DIR) : m.readonly

\* A launch whose group directory is allowed but whose IPC directory is not
\* was ended by the error.
C7_Witness ==
    /\ launch.called /\ launch.outcome = "threw"
    /\ isPathAllowed(pathJoin(GROUPS_DIR, argLaunch.folder), LoadedAllowlist)
    /\ \E m \in DisallowedMounts : m.containerPath = "/workspace/ipc"

(***************************************************************************)
(* The IPC bus: request files in per-group namespaces and their handlers   *)
(***************************************************************************)
MaxIpcFiles == 2

MAIN_GROUP_FOLDER == "main"
IpcNamespaces == {"main", "one", "two"}
Jids == {"jid-main", "jid-1", "jid-2", "jid-3"}

\* "" stands for a member that is absent or empty (both are falsy).
ABSENT == ""

Request(type, chatJid, hasText, taskId, ok, valid, targetJid, jid, hasName, folder) ==
    [malformed |-> FALSE, type |-> type, chatJid |-> chatJid, hasText |-> hasText,
     taskId |-> taskId, payloadOk |-> ok, scheduleValid |-> valid,
     targetJid |-> targetJid, jid |-> jid, hasName |-> hasName, folder |-> folder]

\* Content that JSON.parse rejects.
MALFORMED ==
    [Request("", ABSENT, FALSE, ABSENT, FALSE, FALSE, ABSENT, ABSENT, FALSE, ABSENT)
        EXCEPT !.malformed = TRUE]

\* The contents a messages file can have: a message for each chat, one
\* without text, one of another type, and one that does not parse.
MessageRequests ==
    {Request("message", c, TRUE, ABSENT, FALSE, FALSE, ABSENT, ABSENT, FALSE, ABSENT) :
        c \in Jids \cup {ABSENT}}
      \cup {Request("message", "jid-1", FALSE, ABSENT, FALSE, FALSE, ABSENT, ABSENT,
                    FALSE, ABSENT),
            Request("note", "jid-1", TRUE, ABSENT, FALSE, FALSE, ABSENT, ABSENT,
                    FALSE, ABSENT),
            MALFORMED}

TaskIdStrings == {ABSENT, "1", "2x", "9", "x"}

\* The contents a tasks file can have.
TaskRequests ==
    {Request("schedule_task", ABSENT, FALSE, ABSENT, TRUE, TRUE, tj, ABSENT, FALSE, ABSENT) :
        tj \in Jids \cup {ABSENT}}
      \cup {Request("schedule_task", ABSENT, FALSE, ABSENT, ok, ~ok, "jid-1", ABSENT,
                    FALSE, ABSENT) : ok \in BOOLEAN}
      \cup {Request(t, ABSENT, FALSE, id, TRUE, TRUE, ABSENT, ABSENT, FALSE, ABSENT) :
              t \in {"pause_task", "resume_task", "cancel_task", "update_task"},
              id \in TaskIdStrings}
      \cup {Request("update_task", ABSENT, FALSE, "1", ok, ~ok, ABSENT, ABSENT,
                    FALSE, ABSENT) : ok \in BOOLEAN}
      \cup {Request("refresh_groups", ABSENT, FALSE, ABSENT, FALSE, FALSE, ABSENT,
                    ABSENT, FALSE, ABSENT)}
      \cup {Request("register_group", ABSENT, FALSE, ABSENT, FALSE, FALSE, ABSENT,
                    "jid-3", TRUE, f) : f \in {ABSENT, "one", "three"}}
      \cup {Request("register_group", ABSENT, FALSE, ABSENT, FALSE, FALSE, ABSENT,
                    j, ~(j = "jid-3"), "three") : j \in {ABSENT, "jid-3"}}
      \cup {Request("remove_group", ABSENT, FALSE, ABSENT, FALSE, FALSE, ABSENT, j,
                    FALSE, ABSENT) : j \in {ABSENT, "jid-main", "jid-1", "jid-3"}}
      \cup {Request("bogus", ABSENT, FALSE, ABSENT, FALSE, FALSE, ABSENT, ABSENT,
                    FALSE, ABSENT)}
      \cup {MALFORMED}

\* Number.parseInt(taskId, 10): leading digits, or NaN (0 here; row ids
\* start at 1).
parseTaskId(str) ==
    CASE str = "1" -> 1 [] str = "2x" -> 2 [] str = "9" -> 9
      [] OTHER -> 0

Task(folder, chatJid, status, revision) ==
    [group_folder |-> folder, chat_jid |-> chatJid, status |-> status,
     revision |-> revision]

\* The handlers work on the bus state as one value.
B == [registeredGroups |-> registeredGroups, tasks |-> tasks,
      nextTaskId |-> nextTaskId, delivered |-> delivered,
      syncCalls |-> syncCalls, snapshotWrites |-> snapshotWrites,
      blocked |-> blocked]

SetB(b) ==
    /\ registeredGroups' = b.registeredGroups
    /\ tasks' = b.tasks
    /\ nextTaskId' = b.nextTaskId
    /\ delivered' = b.delivered
    /\ syncCalls' = b.syncCalls
    /\ snapshotWrites' = b.snapshotWrites
    /\ blocked' = b.blocked

\* The branches that log a "blocked unauthorized" warning and do nothing;
\* what is the kind of request the warning names.
Block(b, sourceGroup, what) ==
    [b EXCEPT !.blocked = @ (+) SetToBag({[sourceGroup |-> sourceGroup, what |-> what]})]

findJidByGroupFolder(groups, folder) ==
    IF \E j \in Jids : groups[j] = folder
    THEN CHOOSE j \in Jids : groups[j] = folder
    ELSE ABSENT

\* unregisterGroup of the host: the main group is never removed; the tasks
\* of a removed group are deleted.
unregisterGroup(b, jid) ==
    LET existing == b.registeredGroups[jid]
    IN IF existing = ABSENT \/ existing = MAIN_GROUP_FOLDER THEN b
       ELSE [b EXCEPT !.registeredGroups[jid] = ABSENT,
                      !.tasks = [id \in {i \in DOMAIN b.tasks :
                                           b.tasks[i].group_folder # existing}
                                   |-> b.tasks[id]]]

scheduleTask(b, data, sourceGroup, isMain) ==
    LET targetJid == IF data.targetJid # ABSENT THEN data.targetJid
                     ELSE findJidByGroupFolder(b.registeredGroups, sourceGroup)
    IN IF ~data.payloadOk THEN b
       ELSE IF targetJid = ABSENT THEN b
       ELSE IF b.registeredGroups[targetJid] = ABSENT THEN b
       ELSE IF ~isMain /\ b.registeredGroups[targetJid] # sourceGroup
       THEN Block(b, sourceGroup, "schedule_task")
       ELSE IF ~data.scheduleValid THEN b
       ELSE [b EXCEPT !.tasks = @ @@ (b.nextTaskId :>
                                  Task(b.registeredGroups[targetJid], targetJid, "active", 0)),
                      !.nextTaskId = @ + 1]

\* Variant of the task-mutation case without the ownership check.
mutateTask_noAuth(b, data, sourceGroup, isMain) ==
    LET taskId == parseTaskId(data.taskId)
    IN IF data.taskId = ABSENT THEN b
       ELSE IF taskId = 0 THEN b
       ELSE IF taskId \notin DOMAIN b.tasks THEN b
       ELSE IF data.type = "pause_task"
       THEN [b EXCEPT !.tasks[taskId].status = "paused"]
       ELSE IF data.type = "resume_task"
       THEN [b EXCEPT !.tasks[taskId].status = "active"]
       ELSE IF data.type = "update_task"
       THEN (IF ~data.payloadOk \/ ~data.scheduleValid THEN b
             ELSE [b EXCEPT !.tasks[taskId].status = "active",
                            !.tasks[taskId].revision = @ + 1])
       ELSE [b EXCEPT !.tasks = [id \in DOMAIN b.tasks \ {taskId} |-> b.tasks[id]]]

mutateTask(b, data, sourceGroup, isMain) ==
    LET taskId == parseTaskId(data.taskId)
    IN IF data.taskId = ABSENT THEN b
       ELSE IF taskId = 0 THEN b
       ELSE IF taskId \notin DOMAIN b.tasks THEN b
       ELSE IF ~isMain /\ b.tasks[taskId].group_folder # sourceGroup
       THEN Block(b, sourceGroup, "task mutation")
       ELSE IF data.type = "pause_task"
       THEN [b EXCEPT !.tasks[taskId].status = "paused"]
       ELSE IF data.type = "resume_task"
       THEN [b EXCEPT !.tasks[taskId].status = "active"]
       ELSE IF data.type = "update_task"
       THEN (IF ~data.payloadOk \/ ~data.scheduleValid THEN b
             ELSE [b EXCEPT !.tasks[taskId].status = "active",
                            !.tasks[taskId].revision = @ + 1])
       ELSE [b EXCEPT !.tasks = [id \in DOMAIN b.tasks \ {taskId} |-> b.tasks[id]]]

\* registerGroup of the host: the group enters the map and the snapshots
\* of its folder are rewritten.
registerGroup(b, jid, folder) ==
    [b EXCEPT !.registeredGroups[jid] = folder, !.snapshotWrites = @ + 1]

\* The syncGroupMetadata dependency as the host wires it: the channel is
\* asked for the metadata, then the snapshots of every registered group are
\* rewritten.
syncGroupMetadata(b) ==
    [b EXCEPT !.syncCalls = @ + 1,
              !.snapshotWrites =
                  @ + Cardinality({j \in Jids : b.registeredGroups[j] # ABSENT})]

\* Variant of processTaskIpc whose register_group, remove_group and
\* refresh_groups cases do not look at the origin.
processTaskIpc_anyOrigin(b, data, sourceGroup, isMain) ==
    CASE data.type = "schedule_task" -> scheduleTask(b, data, sourceGroup, isMain)
      [] data.type \in {"pause_task", "resume_task", "cancel_task", "update_task"}
            -> mutateTask(b, data, sourceGroup, isMain)
      [] data.type = "refresh_groups" ->
            [syncGroupMetadata(b) EXCEPT !.snapshotWrites = @ + 1]
      [] data.type = "register_group" ->
            IF data.jid = ABSENT \/ ~data.hasName \/ data.folder = ABSENT THEN b
            ELSE registerGroup(b, data.jid, data.folder)
      [] data.type = "remove_group" ->
            IF data.jid = ABSENT THEN b
            ELSE unregisterGroup(b, data.jid)
      [] OTHER -> b

processTaskIpc(b, data, sourceGroup, isMain) ==
    CASE data.type = "schedule_task" -> scheduleTask(b, data, sourceGroup, isMain)
      [] data.type \in {"pause_task", "resume_task", "cancel_task", "update_task"}
            -> mutateTask(b, data, sourceGroup, isMain)
      [] data.type = "refresh_groups" ->
            IF ~isMain THEN Block(b, sourceGroup, "refresh_groups")
            ELSE [syncGroupMetadata(b) EXCEPT !.snapshotWrites = @ + 1]
      [] data.type = "register_group" ->
            IF ~isMain THEN Block(b, sourceGroup, "register_group")
            ELSE IF data.jid = ABSENT \/ ~data.hasName \/ data.folder = ABSENT THEN b
            ELSE registerGroup(b, data.jid, data.folder)
      [] data.type = "remove_group" ->
            IF ~isMain THEN Block(b, sourceGroup, "remove_group")
            ELSE IF data.jid = ABSENT THEN b
            ELSE unregisterGroup(b, data.jid)
      [] OTHER -> b

\* The body of the loop of processMessageFiles for a parsed file.
deliverMessage(b, data, sourceGroup, isMain) ==
    IF data.type = "message" /\ data.chatJid # ABSENT /\ data.hasText
    THEN LET targetFolder == b.registeredGroups[data.chatJid]
             authorized == isMain \/ (targetFolder # ABSENT /\ targetFolder = sourceGroup)
         IN IF authorized
            THEN [b EXCEPT !.delivered[data.chatJid] = @ + 1]
            ELSE Block(b, sourceGroup, "message")
    ELSE b

RequestFile(ns, dir, name, data) ==
    [ns |-> ns, dir |-> dir, name |-> name, data |-> data]

\* moveToErrorDir: the file is renamed to errors/<sourceGroup>-<file>.
moveToErrorDir(q, f) ==
    {e \in q : e.name # <<f.ns, "-", f.name>>}
       \cup {[name |-> <<f.ns, "-", f.name>>, data |-> f.data]}

IInit ==
    /\ registeredGroups = [j \in Jids |->
          CASE j = "jid-main" -> "main" [] j = "jid-1" -> "one"
            [] j = "jid-2" -> "two" [] OTHER -> ABSENT]
    /\ tasks = (1 :> Task("one", "jid-1", "active", 0))
                  @@ (2 :> Task("two", "jid-2", "active", 0))
    /\ nextTaskId = 3
    /\ delivered = [j \in Jids |-> 0]
    /\ syncCalls = 0
    /\ snapshotWrites = 0
    /\ blocked = EmptyBag
    /\ inbound = {}
    /\ quarantine = {}
    /\ filesWritten = 0

\* A sandbox (or the host) renames a complete request file into a folder of
\* a namespace; the producer makes the name unique.  A handler takes one
\* file and never looks at the others that wait, so the bus is followed
\* with one file waiting at a time; SpecWatcher covers several files
\* waiting in one scan.
WriteIpcFile(ns, dir, data) ==
    /\ filesWritten < MaxIpcFiles
    /\ inbound = {}
    /\ filesWritten' = filesWritten + 1
    /\ inbound' = inbound \cup
          {RequestFile(ns, dir, IF filesWritten = 0 THEN "a.json" ELSE
                                IF filesWritten = 1 THEN "b.json" ELSE "c.json", data)}
    /\ UNCHANGED <<registeredGroups, tasks, nextTaskId, delivered, syncCalls,
                   snapshotWrites, blocked, quarantine, iOthers, wvars>>

WriteMessageFile ==
    \E ns \in IpcNamespaces, data \in MessageRequests :
        WriteIpcFile(ns, "messages", data)

WriteTaskFile ==
    \E ns \in IpcNamespaces, data \in TaskRequests :
        WriteIpcFile(ns, "tasks", data)

\* Whether handling a messages file ends in the catch branch: its content
\* does not parse, or the send it makes is rejected (sendFails).
MessageRaises(f, sendFails) ==
    \/ f.data.malformed
    \/ /\ sendFails
       /\ deliverMessage(B, f.data, f.ns, f.ns = MAIN_GROUP_FOLDER).delivered # delivered

\* One iteration of the loop of processMessageFiles: parse, deliver if
\* authorized, unlink; a parse error or a rejected send quarantines the file.
MessageFileEffect(f, sendFails) ==
    /\ IF MessageRaises(f, sendFails)
       THEN /\ quarantine' = moveToErrorDir(quarantine, f)
            /\ SetB(B)
       ELSE /\ quarantine' = quarantine
            /\ SetB(deliverMessage(B, f.data, f.ns, f.ns = MAIN_GROUP_FOLDER))
    /\ inbound' = inbound \ {f}

HandleMessageFile(f, sendFails) ==
    /\ f \in inbound /\ f.dir = "messages"
    /\ MessageFileEffect(f, sendFails)
    /\ UNCHANGED <<filesWritten, iOthers, wvars>>

\* Whether handling a tasks file ends in the catch branch: its content does
\* not parse, or the metadata sync of a refresh_groups request of main is
\* rejected (syncFails).
TaskRaises(f, syncFails) ==
    \/ f.data.malformed
    \/ syncFails /\ f.data.type = "refresh_groups" /\ f.ns = MAIN_GROUP_FOLDER

\* One iteration of the loop of processTaskFiles: parse, processTaskIpc,
\* unlink.  A rejected sync raises before the snapshot is written.
TaskFileEffect(f, syncFails) ==
    /\ IF f.data.malformed
       THEN /\ quarantine' = moveToErrorDir(quarantine, f)
            /\ SetB(B)
       ELSE IF TaskRaises(f, syncFails)
       THEN /\ quarantine' = moveToErrorDir(quarantine, f)
            /\ SetB([B EXCEPT !.syncCalls = @ + 1])
       ELSE /\ quarantine' = quarantine
            /\ SetB(processTaskIpc(B, f.data, f.ns, f.ns = MAIN_GROUP_FOLDER))
    /\ inbound' = inbound \ {f}

HandleTaskFile(f, syncFails) ==
    /\ f \in inbound /\ f.dir = "tasks"
    /\ syncFails => TaskRaises(f, syncFails)
    /\ TaskFileEffect(f, syncFails)
    /\ UNCHANGED <<filesWritten, iOthers, wvars>>

FolderOf(jid) == registeredGroups[jid]

\* The log entry the loop body of processMessageFiles writes for a parsed
\* file before it unlinks it: info after a send, a warning for a blocked
\* send, and nothing when the if without else is not entered.
messageLog(b, data, sourceGroup, isMain) ==
    IF data.type = "message" /\ data.chatJid # ABSENT /\ data.hasText
    THEN LET targetFolder == b.registeredGroups[data.chatJid]
         IN IF isMain \/ (targetFolder # ABSENT /\ targetFolder = sourceGroup)
            THEN "info" ELSE "warn"
    ELSE "none"

\* The log entry processTaskIpc writes: every case ends in logger.info when
\* the request was applied and in logger.warn at each break before that;
\* an unknown type is warned about in the default case.
taskLog(b, data, sourceGroup, isMain) ==
    LET targetJid == IF data.targetJid # ABSENT THEN data.targetJid
                     ELSE findJidByGroupFolder(b.registeredGroups, sourceGroup)
        taskId == parseTaskId(data.taskId)
        refused ==
            CASE data.type = "schedule_task" ->
                    \/ ~data.payloadOk
                    \/ targetJid = ABSENT
                    \/ b.registeredGroups[targetJid] = ABSENT
                    \/ ~isMain /\ b.registeredGroups[targetJid] # sourceGroup
                    \/ ~data.scheduleValid
              [] data.type \in {"pause_task", "resume_task", "cancel_task", "update_task"} ->
                    \/ data.taskId = ABSENT
                    \/ taskId = 0
                    \/ taskId \notin DOMAIN b.tasks
                    \/ ~isMain /\ b.tasks[taskId].group_folder # sourceGroup
                    \/ data.type = "update_task" /\ (~data.payloadOk \/ ~data.scheduleValid)
              [] data.type = "refresh_groups" -> ~isMain
              [] data.type = "register_group" ->
                    ~isMain \/ data.jid = ABSENT \/ ~data.hasName \/ data.folder = ABSENT
              [] data.type = "remove_group" -> ~isMain \/ data.jid = ABSENT
              [] OTHER -> TRUE
    IN IF refused THEN "warn" ELSE "info"

\* The log entry written for a request file whose handling does not raise.
handlerLog(f) ==
    IF f.dir = "messages" THEN messageLog(B, f.data, f.ns, f.ns = MAIN_GROUP_FOLDER)
    ELSE taskLog(B, f.data, f.ns, f.ns = MAIN_GROUP_FOLDER)

\* C32: every request file that leaves an inbound folder has been applied
\* by its handler (which logs the fact), been refused with a logged
\* warning, or been moved to the errors folder, whatever its type and
\* whichever members it lacks.
C32_NoSilentDrop ==
    [][\A f \in inbound \ inbound' :
          \/ \E e \in quarantine' : e.name = <<f.ns, "-", f.name>> /\ e.data = f.data
          \/ handlerLog(f) \in {"info", "warn"}]_vars

ChangedTasks ==
    {id \in DOMAIN tasks : id \notin DOMAIN tasks' \/ tasks'[id] # tasks[id]}

CreatedTasks == DOMAIN tasks' \ DOMAIN tasks

\* C10: handling a request file found in a non-main namespace S delivers a
\* message only to a chat registered with folder S, creates a task only for
\* folder S and changes or deletes only tasks whose group_folder is S; a
\* request found in the main namespace is applied whatever group it targets.
C10_CrossGroupAuthorization ==
    [][\A f \in inbound :
          f \notin inbound' =>
            /\ f.ns # MAIN_GROUP_FOLDER =>
                  /\ \A j \in Jids :
                        delivered'[j] # delivered[j] => FolderOf(j) = f.ns
                  /\ \A id \in CreatedTasks : tasks'[id].group_folder = f.ns
                  /\ \A id \in ChangedTasks : tasks[id].group_folder = f.ns
                  /\ registeredGroups' = registeredGroups
            /\ (f.ns = MAIN_GROUP_FOLDER /\ ~f.data.malformed) =>
                  /\ (f.dir = "messages" /\ f.data.type = "message"
                        /\ f.data.chatJid # ABSENT /\ f.data.hasText
                        /\ quarantine' = quarantine)
                       => delivered'[f.data.chatJid] = delivered[f.data.chatJid] + 1
                  /\ (f.dir = "tasks" /\ f.data.type = "schedule_task"
                        /\ f.data.payloadOk /\ f.data.scheduleValid
                        /\ f.data.targetJid # ABSENT
                        /\ FolderOf(f.data.targetJid) # ABSENT)
                       => \E id \in CreatedTasks :
                             tasks'[id].group_folder = FolderOf(f.data.targetJid)
                  /\ (f.dir = "tasks" /\ f.data.type = "pause_task"
                        /\ parseTaskId(f.data.taskId) \in DOMAIN tasks)
                       => tasks'[parseTaskId(f.data.taskId)].status = "paused"
                  /\ (f.dir = "tasks" /\ f.data.type = "cancel_task"
                        /\ parseTaskId(f.data.taskId) \in DOMAIN tasks)
                       => parseTaskId(f.data.taskId) \notin DOMAIN tasks']_vars

\* Both cases have happened: a request from namespace "one" to change a
\* task of another group was refused, handled and removed, leaving every task and
\* chat of the other groups as it was, and a message from the main namespace
\* has been delivered to a chat that belongs to no group (which only main
\* may address).
C10_Witness ==
    /\ inbound = {} /\ quarantine = {} /\ filesWritten = 2
    /\ blocked = SetToBag({[sourceGroup |-> "one", what |-> "task mutation"]})
    /\ DOMAIN tasks = {1, 2}
    /\ tasks[1] = Task("one", "jid-1", "active", 0)
    /\ tasks[2] = Task("two", "jid-2", "active", 0)
    /\ delivered = [j \in Jids |-> IF j = "jid-3" THEN 1 ELSE 0]

(***************************************************************************)
(* The poll loop of the IPC watcher                                        *)
(***************************************************************************)
MaxStartCalls == 2

\* The number of request files that may wait in the folders at one time
\* while the poll loop is observed.
MaxWaitingFiles == 2

FileNames == {"a.json", "b.json"}

\* The folders in the order in which one tick visits them.
ScanOrder ==
    << <<"main", "messages">>, <<"main", "tasks">>, <<"one", "messages">>,
       <<"one", "tasks">>, <<"two", "messages">>, <<"two", "tasks">> >>

\* The contents placed while the poll loop is observed: a message for the
\* chat of group "one", a task request, a refresh request, and content that
\* does not parse.
PolledMessageRequests ==
    {Request("message", "jid-1", TRUE, ABSENT, FALSE, FALSE, ABSENT, ABSENT, FALSE, ABSENT),
     MALFORMED}

PolledTaskRequests ==
    {Request("pause_task", ABSENT, FALSE, "1", TRUE, TRUE, ABSENT, ABSENT, FALSE, ABSENT),
     Request("refresh_groups", ABSENT, FALSE, ABSENT, FALSE, FALSE, ABSENT, ABSENT,
             FALSE, ABSENT),
     MALFORMED}

Poller(phase, pos, batch) == [phase |-> phase, pos |-> pos, batch |-> batch]

WInit ==
    /\ ipcWatcherRunning = FALSE
    /\ pollers = <<>>
    /\ hStartCalls = 0
    /\ hPlaced = EmptyBag
    /\ hHanded = EmptyBag
    /\ hRaised = EmptyBag
    /\ hOwed = {}

FilesIn(folder) == {f \in inbound : f.ns = folder[1] /\ f.dir = folder[2]}

\* readdirSync(...).filter(.json): the names of the folder.
ListNames(folder) ==
    LET names == {f.name : f \in FilesIn(folder)}
    IN (IF "a.json" \in names THEN <<"a.json">> ELSE <<>>)
          \o (IF "b.json" \in names THEN <<"b.json">> ELSE <<>>)

\* After the last file of a folder: the next folder, or setTimeout for the
\* next tick after the last folder.
NextFolder(p) ==
    IF p.pos < Len(ScanOrder)
    THEN Poller("scanning", p.pos + 1, <<>>)
    ELSE Poller("sleeping", 0, <<>>)

\* Variant of startIpcWatcher without the ipcWatcherRunning check.
StartIpcWatcher_noFlag ==
    /\ hStartCalls < MaxStartCalls
    /\ hStartCalls' = hStartCalls + 1
    /\ ipcWatcherRunning' = TRUE
    /\ pollers' = Append(pollers, Poller("scanning", 1, <<>>))
    /\ UNCHANGED <<hPlaced, hHanded, hRaised, hOwed, ivars, iOthers>>

\* startIpcWatcher: a second call returns at once; the first sets the flag
\* and makes the first call of processIpcFiles.
StartIpcWatcher ==
    /\ hStartCalls < MaxStartCalls
    /\ hStartCalls' = hStartCalls + 1
    /\ IF ipcWatcherRunning
       THEN UNCHANGED <<ipcWatcherRunning, pollers>>
       ELSE /\ ipcWatcherRunning' = TRUE
            /\ pollers' = Append(pollers, Poller("scanning", 1, <<>>))
    /\ UNCHANGED <<hPlaced, hHanded, hRaised, hOwed, ivars, iOthers>>

\* A producer renames a complete request file into a folder, under a name
\* that no waiting file of the folder has.
PlaceRequestFile(ns, dir, name, data) ==
    /\ filesWritten < MaxIpcFiles
    /\ Cardinality(inbound) < MaxWaitingFiles
    /\ \A f \in FilesIn(<<ns, dir>>) : f.name # name
    /\ filesWritten' = filesWritten + 1
    /\ inbound' = inbound \cup {RequestFile(ns, dir, name, data)}
    /\ hPlaced' = hPlaced (+) SetToBag({RequestFile(ns, dir, name, data)})
    /\ UNCHANGED <<registeredGroups, tasks, nextTaskId, delivered, syncCalls,
                   snapshotWrites, blocked, quarantine, iOthers,
                   ipcWatcherRunning, pollers, hStartCalls, hHanded, hRaised,
                   hOwed>>

PlaceMessageFile ==
    \E ns \in IpcNamespaces, name \in FileNames, data \in PolledMessageRequests :
        PlaceRequestFile(ns, "messages", name, data)

PlaceTaskFile ==
    \E ns \in IpcNamespaces, name \in FileNames, data \in PolledTaskRequests :
        PlaceRequestFile(ns, "tasks", name, data)

\* processMessageFiles / processTaskFiles up to the loop: list the folder.
ScanFolder(i) ==
    /\ i \in 1..Len(pollers) /\ pollers[i].phase = "scanning"
    /\ LET names == ListNames(ScanOrder[pollers[i].pos])
       IN pollers' = [pollers EXCEPT ![i] =
             IF names = <<>> THEN NextFolder(@)
             ELSE Poller("handling", @.pos, names)]
    /\ UNCHANGED <<ipcWatcherRunning, hStartCalls, hPlaced, hHanded, hRaised,
                   hOwed, ivars, iOthers>>

\* The listing of the base directory at the start of a tick throws
\* (readdirSync or statSync): the error is caught and logged, and the next
\* tick is scheduled.
ReadBaseDirFails(i) ==
    /\ i \in 1..Len(pollers)
    /\ pollers[i] = Poller("scanning", 1, <<>>)
    /\ pollers' = [pollers EXCEPT ![i] = Poller("sleeping", 0, <<>>)]
    /\ UNCHANGED <<ipcWatcherRunning, hStartCalls, hPlaced, hHanded, hRaised,
                   hOwed, ivars, iOthers>>

\* existsSync is true and readdirSync of a messages or tasks folder throws
\* (the name is not a directory, or cannot be read): no try encloses the
\* call, so the exception leaves processMessageFiles or processTaskFiles
\* and processIpcFiles before its closing setTimeout.
ListFolderFails(i) ==
    /\ i \in 1..Len(pollers) /\ pollers[i].phase = "scanning"
    /\ pollers' = [pollers EXCEPT ![i] = Poller("failed", @.pos, <<>>)]
    /\ UNCHANGED <<ipcWatcherRunning, hStartCalls, hPlaced, hHanded, hRaised,
                   hOwed, ivars, iOthers>>

\* The position of a file's folder in the order of a tick.
FolderPos(f) == CHOOSE k \in 1..Len(ScanOrder) : ScanOrder[k] = <<f.ns, f.dir>>

\* The files that a tick at file f of its batch still has before it: the
\* rest of the batch and the files of the folders not yet visited.
StillAhead(p, f) ==
    {g \in inbound \ {f} :
        \/ FolderPos(g) > p.pos
        \/ FolderPos(g) = p.pos /\ Includes(Tail(p.batch), g.name)}

\* Variant without the try/catch around the handling of one file: the
\* exception leaves processIpcFiles and no next tick is scheduled.
AfterFile_raisePropagates(p, raised) ==
    IF raised THEN Poller("failed", p.pos, <<>>)
    ELSE IF Len(p.batch) = 1 THEN NextFolder(p)
    ELSE Poller("handling", p.pos, Tail(p.batch))

\* The loop after one file: a raise is caught, logged and the file moved to
\* errors, and the loop goes on with the next name as after a success.
AfterFile(p, raised) ==
    IF Len(p.batch) = 1 THEN NextFolder(p)
    ELSE Poller("handling", p.pos, Tail(p.batch))

\* One iteration of the loop over the listed names.  A listed file that is
\* no longer there makes the read throw; the error is logged.
PollHandleFile(i, fails) ==
    /\ i \in 1..Len(pollers) /\ pollers[i].phase = "handling"
    /\ LET p == pollers[i]
           folder == ScanOrder[p.pos]
           found == {f \in FilesIn(folder) : f.name = Head(p.batch)}
       IN IF found = {}
          THEN /\ pollers' = [pollers EXCEPT ![i] = AfterFile(p, TRUE)]
               /\ UNCHANGED <<ivars, hHanded, hRaised, hOwed>>
          ELSE \E f \in found :
                 LET raised == IF f.dir = "messages" THEN MessageRaises(f, fails)
                               ELSE TaskRaises(f, fails)
                 IN /\ IF f.dir = "messages" THEN MessageFileEffect(f, fails)
                       ELSE TaskFileEffect(f, fails)
                    /\ pollers' = [pollers EXCEPT ![i] = AfterFile(p, raised)]
                    /\ hRaised' = IF raised THEN hRaised (+) SetToBag({f}) ELSE hRaised
                    /\ hOwed' = IF raised THEN (hOwed \cup StillAhead(p, f)) \ {f}
                                ELSE hOwed \ {f}
                    /\ hHanded' = hHanded (+) SetToBag({f})
                    /\ UNCHANGED filesWritten
    /\ UNCHANGED <<ipcWatcherRunning, hStartCalls, hPlaced, iOthers>>

\* The timer set at the end of a tick fires: the next tick begins.
PollTimerFires(i) ==
    /\ i \in 1..Len(pollers) /\ pollers[i].phase = "sleeping"
    /\ pollers' = [pollers EXCEPT ![i] = Poller("scanning", 1, <<>>)]
    /\ UNCHANGED <<ipcWatcherRunning, hStartCalls, hPlaced, hHanded, hRaised,
                   hOwed, ivars, iOthers>>

TicksInProgress == {i \in 1..Len(pollers) : pollers[i].phase # "sleeping"}

\* C12: every request file placed in a messages or tasks folder is handed
\* to its handler exactly once: however often the watcher is started there
\* is at most one poll loop, so at most one tick is in progress, and every
\* file placed so far is either still waiting, not yet handed over, or has
\* been handed over once and is gone from its folder.
C12_ExactlyOnce ==
    /\ Len(pollers) <= 1
    /\ Cardinality(TicksInProgress) <= 1
    /\ hPlaced = hHanded (+) SetToBag(inbound)

\* The watcher was started twice; a message file and a task file were
\* placed, both were handed over and applied once, and the one loop sleeps
\* until the next tick.
C12_Witness ==
    /\ hStartCalls = 2 /\ Len(pollers) = 1 /\ pollers[1].phase = "sleeping"
    /\ filesWritten = 2 /\ inbound = {}
    /\ BagCardinality(hHanded) = 2
    /\ delivered["jid-1"] = 1 /\ 1 \in DOMAIN tasks /\ tasks[1].status = "paused"

\* C39: once the watcher is started its poll loop goes on for ever: it is
\* inside a tick or waits for the timer of the next one, whatever failed
\* while the base directory, a messages or tasks folder or a file was
\* listed or read.
C39_PollLoopNeverStops ==
    ipcWatcherRunning =>
        /\ Len(pollers) = 1
        /\ pollers[1].phase \in {"scanning", "handling", "sleeping"}

\* C13: every file whose handling raised (malformed content, or a handler
\* that raised) has a file of its own in the errors folder, also when the
\* files have the same name in different folders or arrive one after the
\* other.
C13_OneQuarantineFileEach ==
    Cardinality(quarantine) = BagCardinality(hRaised)

\* C21: a file whose parsing or handling raises does not stop the bus: the
\* poll loop never fails, and every other file that the tick still had
\* before it when the file raised, in the same folder, in the other folder
\* of the namespace and in the namespaces not yet visited, has been handed
\* to its handler when the tick ends.
C21_FailureDoesNotStopTick ==
    \A i \in 1..Len(pollers) :
        /\ pollers[i].phase # "failed"
        /\ pollers[i].phase = "sleeping" => hOwed = {}

\* A malformed message file of namespace main raised while a message file
\* of namespace one was waiting; the tick went on, delivered that message
\* and ended.
C21_Witness ==
    /\ Len(pollers) = 1 /\ pollers[1].phase = "sleeping"
    /\ BagCardinality(hRaised) = 1 /\ BagCardinality(hHanded) = 2
    /\ \E f \in BagToSet(hRaised) : f.ns = "main" /\ f.dir = "messages"
    /\ Cardinality(quarantine) = 1
    /\ delivered["jid-1"] = 1
    /\ inbound = {} /\ hOwed = {}

GroupAdminTypes == {"register_group", "remove_group", "refresh_groups"}

\* C11: a register_group, remove_group or refresh_groups request takes
\* effect only when it was found in the main namespace: handling one found
\* in any other namespace leaves the registered-group map unchanged,
\* requests no metadata sync and writes no groups snapshot; found in the
\* main namespace and well formed, it registers the group, removes the
\* (non-main) group, or requests a sync and, unless the sync fails, writes
\* the snapshot.
C11_GroupAdminMainOnly ==
    [][\A f \in inbound :
          (f \notin inbound' /\ ~f.data.malformed /\ f.data.type \in GroupAdminTypes) =>
            /\ f.ns # MAIN_GROUP_FOLDER =>
                  /\ registeredGroups' = registeredGroups
                  /\ syncCalls' = syncCalls
                  /\ snapshotWrites' = snapshotWrites
                  /\ tasks' = tasks
            /\ (f.ns = MAIN_GROUP_FOLDER /\ f.dir = "tasks") =>
                  /\ (f.data.type = "register_group" /\ f.data.jid # ABSENT
                        /\ f.data.hasName /\ f.data.folder # ABSENT)
                       => /\ registeredGroups'[f.data.jid] = f.data.folder
                          /\ snapshotWrites' > snapshotWrites
                  /\ (f.data.type = "remove_group" /\ f.data.jid # ABSENT
                        /\ FolderOf(f.data.jid) # MAIN_GROUP_FOLDER)
                       => registeredGroups'[f.data.jid] = ABSENT
                  /\ f.data.type = "refresh_groups"
                       => /\ syncCalls' = syncCalls + 1
                          /\ quarantine' = quarantine
                                => snapshotWrites' > snapshotWrites]_vars

\* A register_group request found in namespace "one" was refused and left
\* the map as it was at that time; a register_group request found in the
\* main namespace has since registered jid-3.
C11_Witness ==
    /\ inbound = {} /\ quarantine = {} /\ filesWritten = 2
    /\ blocked = SetToBag({[sourceGroup |-> "one", what |-> "register_group"]})
    /\ registeredGroups["jid-3"] = "three"
    /\ registeredGroups["jid-1"] = "one" /\ registeredGroups["jid-2"] = "two"
    /\ syncCalls = 0 /\ snapshotWrites = 1

(***************************************************************************)
(* The frame parser of runContainerAgent.  stdout is a sequence of bytes:  *)
(* the ASCII bytes "-", "S", "E", "x", and the two bytes "L", "C" of one   *)
(* two-byte UTF-8 character, written "e'" once decoded.  A chunk is        *)
(* decoded on its own (data.toString()); a byte that is not part of a      *)
(* complete character of the chunk decodes to the replacement character    *)
(* "?".  The markers are strings of several characters that begin and end  *)
(* with "-", as the markers of the source begin and end with "---".        *)
(***************************************************************************)
MaxPieces == 3
MaxCuts == 1

OUTPUT_START_MARKER == <<"-", "S", "-">>
OUTPUT_END_MARKER == <<"-", "E", "-">>

\* chunk.toString(): UTF-8 decoding of the bytes of one chunk.
RECURSIVE decodeChunk(_)
decodeChunk(bytes) ==
    IF bytes = <<>> THEN <<>>
    ELSE IF Head(bytes) = "L"
    THEN IF Len(bytes) >= 2 /\ bytes[2] = "C"
         THEN <<"e'">> \o decodeChunk(SubSeq(bytes, 3, Len(bytes)))
         ELSE <<"?">> \o decodeChunk(Tail(bytes))
    ELSE IF Head(bytes) = "C"
    THEN <<"?">> \o decodeChunk(Tail(bytes))
    ELSE <<Head(bytes)>> \o decodeChunk(Tail(bytes))

\* The bytes that a string of characters is written as.
RECURSIVE encodeString(_)
encodeString(chars) ==
    IF chars = <<>> THEN <<>>
    ELSE (IF Head(chars) = "e'" THEN <<"L", "C">> ELSE <<Head(chars)>>)
            \o encodeString(Tail(chars))

\* s.indexOf(pattern, from) with positions counted from 1; 0 is "not found".
RECURSIVE indexOfFrom(_, _, _)
indexOfFrom(s, pattern, from) ==
    IF from + Len(pattern) - 1 > Len(s) THEN 0
    ELSE IF SubSeq(s, from, from + Len(pattern) - 1) = pattern THEN from
    ELSE indexOfFrom(s, pattern, from + 1)

\* s.trim(): " " stands for any white space.
RECURSIVE trim(_)
trim(s) ==
    IF s = <<>> THEN <<>>
    ELSE IF Head(s) = " " THEN trim(Tail(s))
    ELSE IF s[Len(s)] = " " THEN trim(SubSeq(s, 1, Len(s) - 1))
    ELSE s

\* Whether JSON.parse accepts the text between the markers: a non-empty run
\* of payload characters, with or without white space around it, stands for
\* the JSON text of a ContainerOutput, and anything else for text that is
\* not JSON.
jsonParses(text) ==
    /\ trim(text) # <<>>
    /\ \A i \in 1..Len(trim(text)) : trim(text)[i] \in {"x", "e'", "?"}

\* The while loop of the stdout handler: the frames cut from the buffer, in
\* order, and what is left in the buffer.  parsed holds the frames whose
\* JSON parsed; a frame whose JSON does not parse is logged and dropped.
RECURSIVE extractFrames(_, _)
extractFrames(buffer, parsed) ==
    LET startIdx == indexOfFrom(buffer, OUTPUT_START_MARKER, 1)
        endIdx == indexOfFrom(buffer, OUTPUT_END_MARKER,
                              startIdx + Len(OUTPUT_START_MARKER))
        jsonStr == SubSeq(buffer, startIdx + Len(OUTPUT_START_MARKER), endIdx - 1)
        rest == SubSeq(buffer, endIdx + Len(OUTPUT_END_MARKER), Len(buffer))
    IN IF startIdx = 0 \/ endIdx = 0
       THEN [frames |-> parsed, parseBuffer |-> buffer]
       ELSE extractFrames(rest, IF jsonParses(jsonStr)
                                THEN Append(parsed, trim(jsonStr)) ELSE parsed)

\* The stdout handler for one chunk, as far as the parser goes.
onStdoutData(buffer, chunk) ==
    extractFrames(buffer \o decodeChunk(chunk), <<>>)

\* The frames delivered when the chunks arrive one after the other.
RECURSIVE framesOfChunks(_, _, _)
framesOfChunks(chunks, buffer, sofar) ==
    IF chunks = <<>> THEN sofar
    ELSE LET r == onStdoutData(buffer, Head(chunks))
         IN framesOfChunks(Tail(chunks), r.parseBuffer, sofar \o r.frames)

\* The chunks that cutting a stream at the offsets of cuts gives.
RECURSIVE cutStream(_, _, _)
cutStream(stream, cuts, from) ==
    LET next == {c \in cuts : c >= from}
    IN IF next = {}
       THEN <<SubSeq(stream, from, Len(stream))>>
       ELSE LET c == CHOOSE x \in next : \A y \in next : x <= y
            IN <<SubSeq(stream, from, c)>> \o cutStream(stream, cuts, c + 1)

\* What the sandbox may write: markers, payload characters, a stray dash
\* and whole frames, one after the other.
FRAME_X == OUTPUT_START_MARKER \o <<"x">> \o OUTPUT_END_MARKER

StreamPieces ==
    {OUTPUT_START_MARKER, OUTPUT_END_MARKER, <<"x">>, <<"e'">>, <<"-">>, FRAME_X}

RECURSIVE concatAll(_)
concatAll(pieces) ==
    IF pieces = <<>> THEN <<>> ELSE Head(pieces) \o concatAll(Tail(pieces))

Streams ==
    {encodeString(concatAll(ps)) :
        ps \in UNION {[1..n -> StreamPieces] : n \in 1..MaxPieces}}

CutSets(stream) ==
    {cs \in SUBSET (1..(Len(stream) - 1)) : Cardinality(cs) <= MaxCuts}

NoFrames == [called |-> FALSE, chunked |-> <<>>, whole |-> <<>>]

FIdle ==
    /\ argStream = <<>>
    /\ argCuts = {}
    /\ framesReturn = NoFrames

FInit ==
    /\ argStream \in Streams
    /\ argCuts \in CutSets(argStream)
    /\ framesReturn = NoFrames

\* The stream is received once cut as argCuts says and once in one chunk.
ReceiveStream ==
    /\ ~framesReturn.called
    /\ framesReturn' =
          [called |-> TRUE,
           chunked |-> framesOfChunks(cutStream(argStream, argCuts, 1), <<>>, <<>>),
           whole |-> framesOfChunks(<<argStream>>, <<>>, <<>>)]
    /\ UNCHANGED <<argStream, argCuts, fOthers>>

\* C15: however the stream is cut into chunks, the frames delivered are
\* those delivered when the whole stream arrives as one chunk, with the same
\* content.
C15_ChunkingIndependent ==
    framesReturn.called => framesReturn.chunked = framesReturn.whole

(***************************************************************************)
(* One run of runContainerAgent: spawn, stdout data, frame callbacks,      *)
(* inactivity timer, close                                                 *)
(***************************************************************************)
MaxChunks == 3

\* The characters of stderr that are followed.
MaxStderr == 1

\* config.maxOutputSize, in characters.
MAX_OUTPUT_SIZE == 11

FRAME_E == OUTPUT_START_MARKER \o <<"e'">> \o OUTPUT_END_MARKER

\* A frame whose text is not JSON.
BAD_FRAME == OUTPUT_START_MARKER \o <<"-">> \o OUTPUT_END_MARKER

\* The chunks the sandbox may write: a frame, another frame, both at once,
\* a line of plain text, the head of a frame, its tail, and a frame that is
\* not JSON.
RunChunks ==
    {encodeString(c) :
        c \in {FRAME_X, FRAME_E, FRAME_X \o FRAME_E, <<"x", " ">>,
               OUTPUT_START_MARKER \o <<"x">>, OUTPUT_END_MARKER, BAD_FRAME}}

\* The code that close reports when a signal ended the process (null).
NULL_CODE == -1

\* The value of closeCode before close.
NOT_CLOSED == -2

ExitCodes == {0, 1, NULL_CODE}

\* The result field of a ContainerOutput: null, the content parsed from a
\* block, or raw text.
Result(kind, text) == [kind |-> kind, text |-> text]

Unresolved == [done |-> FALSE, status |-> "", error |-> "", result |-> Result("null", <<>>)]

Resolved(status, error) == [done |-> TRUE, status |-> status, error |-> error, result |-> Result("null", <<>>)]

ResolvedWith(result) == [done |-> TRUE, status |-> "success", error |-> "", result |-> result]

TIMEOUT_ERROR == "Container execution timeout"
EXIT_ERROR == "Container exited with code"
PARSE_ERROR == "Failed to parse container output"

RInit ==
    /\ procState = "not spawned"
    /\ onOutputGiven = FALSE
    /\ parseBuffer = <<>>
    /\ stdout = <<>>
    /\ stdoutTruncated = FALSE
    /\ outputChain = [links |-> <<>>, rejected |-> FALSE]
    /\ callbacks = <<>>
    /\ hadStreamingOutput = FALSE
    /\ timedOut = FALSE
    /\ timeout = FALSE
    /\ closeCode = NOT_CLOSED
    /\ awaitingChain = FALSE
    /\ resolved = Unresolved
    /\ uncaughtException = FALSE
    /\ hParsed = <<>>
    /\ hInvoked = <<>>
    /\ hChunks = 0
    /\ stderr = <<>>
    /\ hReceived = 0
    /\ hFed = 0
    /\ hTimerStarts = 0
    /\ stdin = [data |-> <<>>, ended |-> FALSE]

\* s.lastIndexOf(pattern) with positions counted from 1; 0 is "not found".
RECURSIVE lastIndexOfFrom(_, _, _)
lastIndexOfFrom(s, pattern, from) ==
    IF from < 1 THEN 0
    ELSE IF from + Len(pattern) - 1 <= Len(s)
            /\ SubSeq(s, from, from + Len(pattern) - 1) = pattern THEN from
    ELSE lastIndexOfFrom(s, pattern, from - 1)

\* parseContainerOutput: the last complete block of the buffered stdout, or
\* the whole stdout as a raw success; a block that is not JSON is an error.
parseContainerOutput(text) ==
    LET startIdx == lastIndexOfFrom(text, OUTPUT_START_MARKER, Len(text))
        endIdx == lastIndexOfFrom(text, OUTPUT_END_MARKER, Len(text))
        jsonStr == SubSeq(text, startIdx + Len(OUTPUT_START_MARKER), endIdx - 1)
    IN IF startIdx # 0 /\ endIdx # 0 /\ endIdx > startIdx
       THEN IF jsonParses(jsonStr) THEN ResolvedWith(Result("parsed", trim(jsonStr)))
            ELSE Resolved("error", PARSE_ERROR)
       ELSE ResolvedWith(Result("raw", trim(text)))

\* The ContainerInput of a run, of which only queryLoop is told apart
\* (absent reads as false).
ContainerInput(queryLoop) == [queryLoop |-> queryLoop]

\* container.stdin.write(JSON.stringify(input)); container.stdin.end():
\* both calls are made in every run, whatever the input holds.
stdinAfterSpawn(input) == [data |-> <<input>>, ended |-> TRUE]

\* spawn, onProcess, resetTimeout, stdin write and end.  When the runtime
\* binary cannot be spawned the child emits an error event, for which the
\* function registers no listener, and close is never emitted.
SpawnContainer(onOutput, spawnOk) ==
    /\ procState = "not spawned"
    /\ procState' = IF spawnOk THEN "running" ELSE "spawn failed"
    /\ onOutputGiven' = onOutput
    /\ timeout' = TRUE
    /\ hTimerStarts' = hTimerStarts + 1
    /\ \E queryLoop \in BOOLEAN : stdin' = stdinAfterSpawn(ContainerInput(queryLoop))
    /\ uncaughtException' = ~spawnOk
    /\ UNCHANGED <<parseBuffer, stdout, stdoutTruncated, outputChain, callbacks,
                   hadStreamingOutput, timedOut, closeCode, awaitingChain,
                   resolved, hParsed, hInvoked, hChunks, stderr, hReceived,
                   hFed, rOthers>>

\* The stdout buffer after a chunk, cut at config.maxOutputSize.
appendStdout(text, truncated, chunk) ==
    IF ~truncated /\ Len(text) < MAX_OUTPUT_SIZE
    THEN IF Len(chunk) > MAX_OUTPUT_SIZE - Len(text)
         THEN [stdout |-> text \o SubSeq(chunk, 1, MAX_OUTPUT_SIZE - Len(text)),
               stdoutTruncated |-> TRUE]
         ELSE [stdout |-> text \o chunk, stdoutTruncated |-> truncated]
    ELSE [stdout |-> text, stdoutTruncated |-> truncated]

\* Variant that restarts the inactivity timer for every chunk.
resetTimeoutCalls_everyChunk(frames) == Len(frames) + 1

\* The calls of resetTimeout while one chunk is handled: one for each frame
\* whose JSON parsed.
resetTimeoutCalls(frames) == Len(frames)

\* container.stdout.on('data'): buffer the chunk; with a frame callback,
\* append it to parseBuffer, cut the frames and, for each one that parses,
\* note the output, restart the inactivity timer and chain the callback.
StdoutData(chunk) ==
    /\ procState = "running"
    /\ hChunks < MaxChunks
    /\ hChunks' = hChunks + 1
    /\ LET text == decodeChunk(chunk)
           kept == appendStdout(stdout, stdoutTruncated, text)
           r == extractFrames(parseBuffer \o text, <<>>)
       IN /\ stdout' = kept.stdout
          /\ stdoutTruncated' = kept.stdoutTruncated
          /\ hReceived' = hReceived + Len(text)
          /\ IF onOutputGiven
             THEN /\ parseBuffer' = r.parseBuffer
                  /\ hFed' = hFed + Len(text)
                  /\ hParsed' = hParsed \o r.frames
                  /\ outputChain' = [outputChain EXCEPT !.links = @ \o r.frames]
                  /\ hadStreamingOutput' = (hadStreamingOutput \/ r.frames # <<>>)
                  /\ timeout' = (timeout \/ resetTimeoutCalls(r.frames) > 0)
                  /\ hTimerStarts' = hTimerStarts + resetTimeoutCalls(r.frames)
             ELSE UNCHANGED <<parseBuffer, hFed, hParsed, outputChain,
                              hadStreamingOutput, timeout, hTimerStarts>>
    /\ UNCHANGED <<procState, onOutputGiven, callbacks, timedOut, closeCode,
                   awaitingChain, resolved, uncaughtException, hInvoked, stderr,
                   stdin,
                   stdin, rOthers>>

\* container.stderr.on('data'): the chunk is appended to the stderr buffer.
StderrData(chunk) ==
    /\ procState = "running"
    /\ Len(stderr) < MaxStderr
    /\ stderr' = stderr \o chunk
    /\ UNCHANGED <<procState, onOutputGiven, parseBuffer, stdout, stdoutTruncated,
                   outputChain, callbacks, hadStreamingOutput, timedOut, timeout,
                   closeCode, awaitingChain, resolved, uncaughtException, hParsed,
                   hInvoked, hChunks, hReceived, hFed, hTimerStarts,
                   stdin, rOthers>>

\* Variant in which a link of the chain does not wait for the one before.
PreviousLinkSettled_always == TRUE

\* outputChain.then(...): a link runs when the link before it has settled.
PreviousLinkSettled == callbacks = <<>>

\* The next link of outputChain runs: onOutput is called for its frame,
\* unless the chain is rejected, in which case the link is passed over.
CallbackStarts ==
    /\ outputChain.links # <<>>
    /\ PreviousLinkSettled
    /\ outputChain' = [outputChain EXCEPT !.links = Tail(@)]
    /\ IF outputChain.rejected
       THEN UNCHANGED <<callbacks, hInvoked>>
       ELSE /\ callbacks' = Append(callbacks, Head(outputChain.links))
            /\ hInvoked' = Append(hInvoked, Head(outputChain.links))
    /\ UNCHANGED <<procState, onOutputGiven, parseBuffer, stdout, stdoutTruncated,
                   hadStreamingOutput, timedOut, timeout, closeCode,
                   awaitingChain, resolved, uncaughtException, hParsed, hChunks,
                   stderr, hReceived, hFed, hTimerStarts,
                   stdin, rOthers>>

\* The promise returned by onOutput settles.
CallbackSettles(fulfilled) ==
    /\ callbacks # <<>>
    /\ callbacks' = Tail(callbacks)
    /\ outputChain' = [outputChain EXCEPT !.rejected = @ \/ ~fulfilled]
    /\ UNCHANGED <<procState, onOutputGiven, parseBuffer, stdout, stdoutTruncated,
                   hadStreamingOutput, timedOut, timeout, closeCode,
                   awaitingChain, resolved, uncaughtException, hParsed, hInvoked,
                   hChunks, stderr, hReceived, hFed, hTimerStarts,
                   stdin, rOthers>>

\* stopForTimeout: the inactivity timer fires and the process is killed.
TimeoutFires ==
    /\ timeout
    /\ procState \in {"running", "spawn failed"}
    /\ timeout' = FALSE
    /\ timedOut' = TRUE
    /\ UNCHANGED <<procState, onOutputGiven, parseBuffer, stdout, stdoutTruncated,
                   outputChain, callbacks, hadStreamingOutput, closeCode,
                   awaitingChain, resolved, uncaughtException, hParsed, hInvoked,
                   hChunks, stderr, hReceived, hFed, hTimerStarts,
                   stdin, rOthers>>

\* Variant of the close handler that looks at the exit code first.
classifyClose_codeFirst(code) ==
    IF code # 0 THEN Resolved("error", EXIT_ERROR)
    ELSE IF timedOut /\ hadStreamingOutput THEN Unresolved
    ELSE IF timedOut THEN Resolved("error", TIMEOUT_ERROR)
    ELSE IF onOutputGiven THEN Unresolved
    ELSE parseContainerOutput(stdout)

\* The branches of the close handler: the value to resolve with at once, or
\* Unresolved where resolve is left to the end of outputChain.
classifyClose(code) ==
    IF timedOut /\ hadStreamingOutput THEN Unresolved
    ELSE IF timedOut THEN Resolved("error", TIMEOUT_ERROR)
    ELSE IF code # 0 THEN Resolved("error", EXIT_ERROR)
    ELSE IF onOutputGiven THEN Unresolved
    ELSE parseContainerOutput(stdout)

\* container.on('close').
ProcessCloses(code) ==
    /\ procState = "running"
    /\ procState' = "closed"
    /\ closeCode' = code
    /\ timeout' = FALSE
    /\ resolved' = classifyClose(code)
    /\ awaitingChain' = ~classifyClose(code).done
    /\ UNCHANGED <<onOutputGiven, parseBuffer, stdout, stdoutTruncated,
                   outputChain, callbacks, hadStreamingOutput, timedOut,
                   uncaughtException, hParsed, hInvoked, hChunks, stderr,
                   hReceived, hFed, hTimerStarts,
                   stdin, rOthers>>

\* outputChain.catch(...).finally(...): every link has settled.
ChainSettles ==
    /\ awaitingChain /\ ~resolved.done
    /\ outputChain.links = <<>> /\ callbacks = <<>>
    /\ resolved' = Resolved("success", "")
    /\ UNCHANGED <<procState, onOutputGiven, parseBuffer, stdout, stdoutTruncated,
                   outputChain, callbacks, hadStreamingOutput, timedOut, timeout,
                   closeCode, awaitingChain, uncaughtException, hParsed, hInvoked,
                   hChunks, stderr, hReceived, hFed, hTimerStarts,
                   stdin, rOthers>>

IsPrefix(s, t) == Len(s) <= Len(t) /\ SubSeq(t, 1, Len(s)) = s

\* C14: within one run the frame callback is invoked for the frames in the
\* order in which they complete in the stdout stream and one at a time: the
\* frames for which it was invoked are the first of the frames parsed, no
\* two invocations are in progress together, and an invocation starts only
\* when no earlier one is still in progress, also for frames of one chunk.
C14_InvokedInCompletionOrder ==
    /\ IsPrefix(hInvoked, hParsed)
    /\ Len(callbacks) <= 1
    /\ (outputChain.links # <<>>) =>
           IsPrefix(hInvoked \o outputChain.links, hParsed) \/ outputChain.rejected

\* Two frames arrived in one chunk; the callback for the first has settled
\* and the callback for the second is in progress.
C14_Witness ==
    /\ hChunks = 1
    /\ hParsed = <<<<"x">>, <<"e'">>>>
    /\ hInvoked = hParsed
    /\ callbacks = <<<<"e'">>>>

RunOver ==
    /\ procState \in {"closed", "spawn failed"}
    /\ ~timeout
    /\ outputChain.links = <<>> /\ callbacks = <<>>
    /\ ~(awaitingChain /\ ~resolved.done)

\* C17: after the mounts were validated every process outcome, a failure
\* to spawn included, ends in a promise resolved with status success or
\* error: nothing is raised and no run ends with the promise unresolved.
C17_AlwaysResolves ==
    /\ ~uncaughtException
    /\ RunOver => (resolved.done /\ resolved.status \in {"success", "error"})

\* The text between each start marker and the first end marker after it,
\* from the front of the buffer to its end.
RECURSIVE completeFrames(_)
completeFrames(buffer) ==
    LET startIdx == indexOfFrom(buffer, OUTPUT_START_MARKER, 1)
        endIdx == indexOfFrom(buffer, OUTPUT_END_MARKER,
                              startIdx + Len(OUTPUT_START_MARKER))
    IN IF startIdx = 0 \/ endIdx = 0 THEN <<>>
       ELSE <<SubSeq(buffer, startIdx + Len(OUTPUT_START_MARKER), endIdx - 1)>>
            \o completeFrames(SubSeq(buffer, endIdx + Len(OUTPUT_END_MARKER),
                                     Len(buffer)))

\* A run without frame callback has ended with code 0 and no timeout.
BufferedRunEnded ==
    resolved.done /\ ~onOutputGiven /\ closeCode = 0 /\ ~timedOut

\* C25: a run without frame callback that exits with code 0 resolves with
\* the parsed content of the last complete frame of the buffered stdout,
\* whatever follows that frame, and with the trimmed stdout as a raw
\* success only when the buffer holds no complete frame.
C25_LastCompleteFrameOrRaw ==
    BufferedRunEnded =>
        LET frames == completeFrames(stdout)
        IN IF frames = <<>>
           THEN resolved = ResolvedWith(Result("raw", trim(stdout)))
           ELSE /\ resolved.result.kind # "raw"
                /\ jsonParses(frames[Len(frames)]) =>
                       resolved = ResolvedWith(Result("parsed",
                                                      trim(frames[Len(frames)])))

\* C26: the buffered stdout is never longer than the configured maximum,
\* the truncated flag is set whenever some received stdout data is not in
\* the buffer, and with a frame callback every character received has been
\* appended to the parser's input.
C26_BoundedFlaggedAndFullyParsed ==
    /\ Len(stdout) <= MAX_OUTPUT_SIZE
    /\ hReceived > Len(stdout) => stdoutTruncated
    /\ onOutputGiven => hFed = hReceived

\* C37: once every link of outputChain has been gone through and no
\* callback is in progress, the callback has been invoked exactly once for
\* every frame parsed so far, in their order, whether or not the callback
\* of an earlier frame rejected.
C37_EveryParsedFrameInvoked ==
    (outputChain.links = <<>> /\ callbacks = <<>>) => hInvoked = hParsed

\* C38: whichever way the process closed (code 0, another code, killed by
\* the inactivity timer), the promise of runContainerAgent is resolved only
\* when every link of outputChain has been gone through and no frame
\* callback is in progress or still to start.
C38_ResolvesAfterCallbacks ==
    resolved.done => (outputChain.links = <<>> /\ callbacks = <<>>)

\* C31: once the process is spawned the serialized input has been written
\* to its stdin, once, and stdin has been ended exactly when the run is
\* one-shot; in a run whose input asks for the query loop stdin is left
\* open.
C31_StdinEndedOnlyOneShot ==
    procState # "not spawned" =>
        /\ Len(stdin.data) = 1
        /\ stdin.ended <=> ~stdin.data[1].queryLoop

\* C30: resetTimeout is called once at the start of the run and after that
\* once for each frame whose JSON parsed, and each call arms the timer; a
\* stdout chunk or stderr chunk that completes no such frame leaves the
\* timer as it is; the process is killed only by the expiry of the armed
\* timer.
C30_TimerRestartedByFramesOnly ==
    [][/\ hTimerStarts' - hTimerStarts =
              IF procState = "not spawned" /\ procState' # "not spawned" THEN 1
              ELSE Len(hParsed') - Len(hParsed)
       /\ hTimerStarts' > hTimerStarts => timeout'
       /\ ((hReceived' # hReceived \/ stderr' # stderr) /\ hParsed' = hParsed) =>
              timeout' = timeout
       /\ (timedOut' /\ ~timedOut) => (timeout /\ ~timeout')
      ]_vars

\* With a frame callback, a frame that is not JSON, a line of plain text and
\* a stderr chunk arrived; the timer set at the start was never restarted
\* and has fired.
C30_Witness ==
    /\ onOutputGiven
    /\ stdout = BAD_FRAME \o <<"x", " ">>
    /\ stderr # <<>>
    /\ hParsed = <<>>
    /\ hTimerStarts = 1
    /\ timedOut /\ ~timeout

\* The number of runs that a step starts.
RECURSIVE StartedUpTo(_, _, _)
StartedUpTo(before, after, n) ==
    IF n = 0 THEN 0
    ELSE (after[n] - before[n]) + StartedUpTo(before, after, n - 1)

\* C18: when the processing callback throws or rejects, nothing leaves
\* GroupQueue and the run ends exactly as one that returned false: a retry
\* is scheduled (or the count is reset at the limit), the group is inactive
\* unless its own pending work is started at once, activeCount goes down by
\* one for the ended run, and the pending or waiting work is started.
C18_ThrowIsFailure ==
    [][\A g \in Groups :
          (/\ inProgress[g] > 0
           /\ hThrown'
           /\ hFailures' = hFailures + 1
           /\ RunThrows(g)) =>
              /\ hEscaped' = hEscaped
              /\ [Q' EXCEPT !.hThrown = hThrown] = settle(Q, g, "false")
              /\ IF retryCount[g] < MAX_RETRIES
                 THEN /\ retryCount'[g] = retryCount[g] + 1
                      /\ timers' = timers (+) SetToBag({[groupJid |-> g,
                              delayMs |-> retryDelayMs(retryCount[g] + 1),
                              k |-> hConsecutiveFailures[g] + 1]})
                 ELSE retryCount'[g] = 0 /\ timers' = timers
              /\ active'[g] = pendingMessages[g]
              /\ activeCount' = activeCount - 1
                      + StartedUpTo(hInvocations, hInvocations', NumGroups)
              /\ pendingMessages[g] => hInvocations'[g] = hInvocations[g] + 1
              /\ (~pendingMessages[g] /\ waitingGroups # <<>>) =>
                     LET h == Head(waitingGroups)
                     IN pendingMessages[h] =>
                            (active'[h] /\ hInvocations'[h] = hInvocations[h] + 1)
      ]_vars

\* The number of entries of the wait list that are group g.
TimesWaiting(list, g) == Cardinality({k \in 1..Len(list) : list[k] = g})

\* C29: a call of enqueueMessageCheck for a group that is not active, made
\* while activeCount is at MAX_CONCURRENT_CONTAINERS, starts no run, sets
\* pendingMessages of the group and leaves the group on the wait list
\* exactly once: it is appended if it is not on the list, and the list is
\* left as it is if it is.
C29_WaitListedOnce ==
    [][\A g \in Groups :
          (/\ hEnqueueCalls'[g] = hEnqueueCalls[g] + 1
           /\ ~active[g]
           /\ activeCount >= MAX_CONCURRENT_CONTAINERS
           /\ Enqueue(g)) =>
              /\ hInvocations' = hInvocations
              /\ inProgress' = inProgress
              /\ activeCount' = activeCount
              /\ pendingMessages'[g]
              /\ TimesWaiting(waitingGroups', g) = 1
              /\ waitingGroups' = IF Includes(waitingGroups, g) THEN waitingGroups
                                  ELSE Append(waitingGroups, g)
      ]_vars

\* With groups 1 and 2 running, enqueueMessageCheck was called twice for
\* group 3: it has no run, its pending flag is set and it is on the wait
\* list once.
C29_Witness ==
    /\ active[1] /\ active[2] /\ ~active[3]
    /\ activeCount = MAX_CONCURRENT_CONTAINERS
    /\ hEnqueueCalls[3] = 2
    /\ hInvocations[3] = 0
    /\ pendingMessages[3]
    /\ waitingGroups = <<3>>

\* The only run that has ended is one of group 1 and it ended by a throw
\* while group 3 was waiting: nothing escaped, group 1 is inactive with a
\* first retry scheduled, and group 3 has been started in the freed slot.
C18_Witness ==
    /\ hThrown /\ hFailures = 1 /\ hEscaped = 0
    /\ \A g \in Groups : ~hEverSucceeded[g]
    /\ ~active[1] /\ retryCount[1] = 1
    /\ timers = SetToBag({[groupJid |-> 1, delayMs |-> BASE_RETRY_MS, k |-> 1]})
    /\ active[2] /\ active[3] /\ hInvocations[3] = 1
    /\ activeCount = 2
    /\ waitingGroups = <<>>

C34_NoIdleSlotWhileWaiting ==
    waitingGroups # <<>> => activeCount = MAX_CONCURRENT_CONTAINERS

\* Two groups ran and two waited; the run of group 1 has completed, group 3
\* took its slot and group 4 still waits with every slot in use.
C34_Witness ==
    /\ hCompletions = 1
    /\ inProgress[1] = 0 /\ inProgress[2] = 1 /\ inProgress[3] = 1
    /\ waitingGroups = <<4>>
    /\ activeCount = MAX_CONCURRENT_CONTAINERS

\* C35: the step in which a run of a group fails and a retry is scheduled
\* starts no new run of that group, also when enqueueMessageCheck was
\* called for the group while the failing run was active: the next run
\* waits for the retry delay or for a call made after the failure.
C35_BackoffHonoured ==
    [][\A g \in Groups :
          (/\ inProgress[g] = 1
           /\ hFailures' = hFailures + 1
           /\ retryCount'[g] = retryCount[g] + 1
           /\ TimersOf(g)' # TimersOf(g)) =>
              hInvocations'[g] = hInvocations[g]]_vars

\* The queue with its histories cut off at 1, so that a behaviour in which
\* calls and runs go on for ever stays within finitely many states; no
\* method of GroupQueue reads a history.
boundHistory(q) ==
    [q EXCEPT !.hInvocations = [g \in Groups |-> Min(@[g], 1)],
              !.hEnqueueCalls = [g \in Groups |-> Min(@[g], 1)],
              !.hEnqueuedDuringRun = [g \in Groups |-> Min(@[g], 1)],
              !.hNullRuns = [g \in Groups |-> Min(@[g], 1)]]

\* enqueueMessageCheck called for a group, any number of times.
EnqueueAgain(g) ==
    /\ \A h \in 1..(g - 1) : hEnqueueCalls[h] > 0
    /\ SetQ(boundHistory(enqueueMessageCheck([Q EXCEPT !.hEnqueueCalls[g] = @ + 1], g)))

\* The callback of a run returns true and runForGroup continues.
RunCompletes(g) ==
    /\ inProgress[g] > 0
    /\ SetQ(boundHistory(settle(Q, g, "true")))

\* The group that a burst puts on the wait list first.
FirstToWait == MAX_CONCURRENT_CONTAINERS + 1

\* C36: when every run eventually completes, a group on the wait list
\* eventually has a run started, also while the running groups are
\* enqueued again during each of their runs; stated for the first group
\* that has to wait.
C36_WaitingNotStarved ==
    Includes(waitingGroups, FirstToWait) ~> inProgress[FirstToWait] > 0

(***************************************************************************)
(* sendMessage and closeStdin of GroupQueue                                *)
(***************************************************************************)
MaxPipeCalls == 2

NoReturn == [called |-> FALSE, op |-> "", wasActive |-> FALSE, wrote |-> FALSE, threw |-> FALSE, value |-> ""]

Return(op, wasActive, wrote, value) == [called |-> TRUE, op |-> op, wasActive |-> wasActive, wrote |-> wrote, threw |-> FALSE, value |-> value]

IpcFile(ns, dir, name, seq, content, how) == [ns |-> ns, dir |-> dir, name |-> name, seq |-> seq, content |-> content, how |-> how]

WriterIdle == [op |-> "", ns |-> NO_FOLDER, plan |-> <<>>, opened |-> FALSE]

\* A call of fs.writeFileSync or fs.renameSync inside a folder of a namespace.
WriteFileSync(dir, name, empty) == [call |-> "writeFileSync", dir |-> dir, name |-> name, to |-> "", empty |-> empty]

RenameSync(dir, name, to) == [call |-> "renameSync", dir |-> dir, name |-> name, to |-> to, empty |-> FALSE]

\* The file-system calls of each function that emits a file into a namespace.
sendMessagePlan == <<WriteFileSync("input", "message.json.tmp", FALSE), RenameSync("input", "message.json.tmp", "message.json")>>

closeStdinPlan == <<WriteFileSync("input", "_close", TRUE)>>

enqueueContainerInputPlan == <<WriteFileSync("input", "message.json.tmp", FALSE), RenameSync("input", "message.json.tmp", "message.json")>>

closeContainerInputPlan == <<WriteFileSync("input", "_close", TRUE)>>

writeTasksSnapshotPlan == <<WriteFileSync("", "current_tasks.json", FALSE)>>

writeGroupsSnapshotPlan == <<WriteFileSync("", "available_groups.json", FALSE)>>

writeIpcFilePlan(dir) == <<WriteFileSync(dir, "request.json.tmp", FALSE), RenameSync(dir, "request.json.tmp", "request.json")>>

WriteOps == {"sendMessage", "closeStdin", "enqueueContainerInput", "closeContainerInput", "writeTasksSnapshot", "writeGroupsSnapshot", "writeIpcFile messages", "writeIpcFile tasks"}

PlanOf(op) ==
    CASE op = "sendMessage" -> sendMessagePlan
      [] op = "closeStdin" -> closeStdinPlan
      [] op = "enqueueContainerInput" -> enqueueContainerInputPlan
      [] op = "closeContainerInput" -> closeContainerInputPlan
      [] op = "writeTasksSnapshot" -> writeTasksSnapshotPlan
      [] op = "writeGroupsSnapshot" -> writeGroupsSnapshotPlan
      [] op = "writeIpcFile messages" -> writeIpcFilePlan("messages")
      [] op = "writeIpcFile tasks" -> writeIpcFilePlan("tasks")

\* The names with a random part (time and random suffix) carry the number
\* of the call that made them; the fixed names carry 0.
SeqOf(name, seq) == IF name \in {"_close", "current_tasks.json", "available_groups.json"} THEN 0 ELSE seq

At(files, ns, dir, name, seq) == {f \in files : f.ns = ns /\ f.dir = dir /\ f.name = name /\ f.seq = seq}

\* writeFileSync opens the file by its name, creating or truncating it.
openFile(files, ns, c, seq) ==
    (files \ At(files, ns, c.dir, c.name, SeqOf(c.name, seq))) \cup
        {IpcFile(ns, c.dir, c.name, SeqOf(c.name, seq),
                 IF c.empty THEN "complete" ELSE "partial", "written in place")}

\* writeFileSync has written all of the data.
writeData(files, ns, c, seq) ==
    (files \ At(files, ns, c.dir, c.name, SeqOf(c.name, seq))) \cup
        {IpcFile(ns, c.dir, c.name, SeqOf(c.name, seq), "complete", "written in place")}

\* renameSync: the file takes the new name in one step, with its content.
renameFile(files, ns, c, seq) ==
    LET old == At(files, ns, c.dir, c.name, seq)
    IN ((files \ old) \ At(files, ns, c.dir, c.to, seq)) \cup
           {IpcFile(ns, c.dir, c.to, seq, f.content, "renamed") : f \in old}

\* All the calls of a plan, one after the other.
RECURSIVE runPlan(_, _, _, _)
runPlan(files, ns, plan, seq) ==
    IF plan = <<>> THEN files
    ELSE LET c == Head(plan)
         IN runPlan(IF c.call = "renameSync" THEN renameFile(files, ns, c, seq)
                    ELSE writeData(openFile(files, ns, c, seq), ns, c, seq),
                    ns, Tail(plan), seq)

XInit ==
    /\ fsFiles = {}
    /\ writer = WriterIdle
    /\ hObserved = {}
    /\ pipeReturn = NoReturn
    /\ hPipeCalls = 0

\* The groups are interchangeable: of those never enqueued, the calls below
\* are made for the first one only.
FirstFresh(g) == \A h \in 1..(g - 1) : hEnqueueCalls[h] > 0

\* registerProcess, called with the group's folder by the processing
\* callback once the process of the run exists (a call without a folder
\* changes nothing that is recorded here).
RegisterProcess(g) ==
    /\ inProgress[g] > 0
    /\ SetQ([Q EXCEPT !.groupFolder[g] = g])

\* sendMessage: for an active group with a folder, the message is written
\* to a temporary name in the input folder and renamed; true is returned.
\* Otherwise, and when the file system raises, false is returned.
SendMessage(g, fsRaises) ==
    /\ FirstFresh(g)
    /\ hPipeCalls < MaxPipeCalls
    /\ hPipeCalls' = hPipeCalls + 1
    /\ IF ~active[g] \/ groupFolder[g] = NO_FOLDER
       THEN /\ pipeReturn' = Return("sendMessage", active[g], FALSE, "false")
            /\ fsFiles' = fsFiles
       ELSE IF fsRaises
       THEN /\ pipeReturn' = Return("sendMessage", active[g], FALSE, "false")
            /\ fsFiles' = fsFiles
       ELSE /\ pipeReturn' = Return("sendMessage", active[g], TRUE, "true")
            /\ fsFiles' = runPlan(fsFiles, groupFolder[g], sendMessagePlan, hPipeCalls + 1)
    /\ UNCHANGED <<writer, hObserved, xOthers>>

\* closeStdin: for an active group with a folder, the file _close is
\* written in the input folder.  The method returns nothing in every case.
CloseStdin(g, fsRaises) ==
    /\ FirstFresh(g)
    /\ hPipeCalls < MaxPipeCalls
    /\ hPipeCalls' = hPipeCalls + 1
    /\ IF ~active[g] \/ groupFolder[g] = NO_FOLDER
       THEN /\ pipeReturn' = Return("closeStdin", active[g], FALSE, "undefined")
            /\ fsFiles' = fsFiles
       ELSE IF fsRaises
       THEN /\ pipeReturn' = Return("closeStdin", active[g], FALSE, "undefined")
            /\ fsFiles' = fsFiles
       ELSE /\ pipeReturn' = Return("closeStdin", active[g], TRUE, "undefined")
            /\ fsFiles' = runPlan(fsFiles, groupFolder[g], closeStdinPlan, hPipeCalls + 1)
    /\ UNCHANGED <<writer, hObserved, xOthers>>

\* What each method returns when it has done its work.
ValueOnSuccess(op) == IF op = "sendMessage" THEN "true" ELSE "undefined"

\* C19: called for a group with no active run, sendMessage and closeStdin
\* write no file, do not throw, and return a value that tells the caller
\* of the failure (a value other than the one returned on success).
C19_InactiveGroupRefused ==
    (pipeReturn.called /\ ~pipeReturn.wasActive) =>
        /\ ~pipeReturn.wrote
        /\ ~pipeReturn.threw
        /\ pipeReturn.value # ValueOnSuccess(pipeReturn.op)

(***************************************************************************)
(* Writers and readers of the files of an IPC namespace                    *)
(***************************************************************************)
IpcFolders == 1..2

TmpNames == {"message.json.tmp", "request.json.tmp"}

Writing(op, ns, plan, opened) == [op |-> op, ns |-> ns, plan |-> plan, opened |-> opened]

\* What is left of the write after its current call is done.
Rest(w) == IF Len(w.plan) = 1 THEN WriterIdle ELSE Writing(w.op, w.ns, Tail(w.plan), FALSE)

\* One of the emitting functions is called.
BeginWrite(op, ns) ==
    /\ writer = WriterIdle
    /\ hPipeCalls < MaxPipeCalls
    /\ hPipeCalls' = hPipeCalls + 1
    /\ writer' = Writing(op, ns, PlanOf(op), FALSE)
    /\ UNCHANGED <<fsFiles, hObserved, pipeReturn, xOthers>>

\* writeFileSync has opened its file.
OpenForWrite ==
    /\ writer.plan # <<>> /\ ~writer.opened
    /\ Head(writer.plan).call = "writeFileSync"
    /\ fsFiles' = openFile(fsFiles, writer.ns, Head(writer.plan), hPipeCalls)
    /\ writer' = IF Head(writer.plan).empty THEN Rest(writer)
                 ELSE [writer EXCEPT !.opened = TRUE]
    /\ UNCHANGED <<hObserved, pipeReturn, hPipeCalls, xOthers>>

\* writeFileSync has written the data and returns.
WriteData ==
    /\ writer.opened
    /\ fsFiles' = writeData(fsFiles, writer.ns, Head(writer.plan), hPipeCalls)
    /\ writer' = Rest(writer)
    /\ UNCHANGED <<hObserved, pipeReturn, hPipeCalls, xOthers>>

RenameIntoPlace ==
    /\ writer.plan # <<>>
    /\ Head(writer.plan).call = "renameSync"
    /\ fsFiles' = renameFile(fsFiles, writer.ns, Head(writer.plan), hPipeCalls)
    /\ writer' = Rest(writer)
    /\ UNCHANGED <<hObserved, pipeReturn, hPipeCalls, xOthers>>

\* A reader (the sandbox for input and snapshots, the host for requests)
\* opens a file by its final name and reads what is in it.
ReadByFinalName(f) ==
    /\ f \in fsFiles
    /\ f.name \notin TmpNames
    /\ hObserved' = hObserved \cup {[ns |-> f.ns, dir |-> f.dir, name |-> f.name, content |-> f.content]}
    /\ UNCHANGED <<fsFiles, writer, pipeReturn, hPipeCalls, xOthers>>

\* C20: every file of an IPC namespace comes to its final name by a rename
\* of a completely written temporary file, and no reader that opens a file
\* by its final name sees partially written content.
C20_WrittenThenRenamed ==
    /\ \A f \in fsFiles : f.name \notin TmpNames => f.how = "renamed"
    /\ \A o \in hObserved : o.content = "complete"

(***************************************************************************)
(* The input loop of the sandbox                                           *)
(***************************************************************************)
\* The group whose run and sandbox are followed.
LoopGroup == 1

UIdle == sandbox = [phase |-> "not started", prompts |-> {}]

\* The files of the input folder of a namespace.
InputFiles(files, ns) == {f \in files : f.ns = ns /\ f.dir = "input"}

\* consumeCloseSentinel: whether _close exists, and the folder without it.
consumeCloseSentinel(files, ns) ==
    LET sentinel == {f \in InputFiles(files, ns) : f.name = "_close"}
    IN [found |-> sentinel # {}, files |-> files \ sentinel]

\* drainIpcInputMessages: every file of the folder whose name ends in .json
\* is read and unlinked; the texts of the messages are returned.
drainIpcInputMessages(files, ns) ==
    LET listed == {f \in InputFiles(files, ns) : f.name = "message.json"}
    IN [messages |-> {f.seq : f \in listed}, files |-> files \ listed]

\* poll of waitForIpcMessageOrClose: the sentinel is looked for first and
\* ends the loop; otherwise the messages found become the next prompt;
\* otherwise poll runs again after 500 ms.
poll(box, files, ns) ==
    LET closed == consumeCloseSentinel(files, ns)
        drained == drainIpcInputMessages(files, ns)
    IN IF closed.found
       THEN [sandbox |-> [box EXCEPT !.phase = "exited on close"], files |-> closed.files]
       ELSE IF drained.messages # {}
       THEN [sandbox |-> [phase |-> "prompt", prompts |-> box.prompts \cup drained.messages],
             files |-> drained.files]
       ELSE [sandbox |-> box, files |-> files]

\* main of the sandbox has read its input from stdin and runs the agent on
\* the first prompt; the process exists once the host has registered it.
SandboxStarts ==
    /\ sandbox.phase = "not started"
    /\ groupFolder[LoopGroup] # NO_FOLDER
    /\ sandbox' = [sandbox EXCEPT !.phase = "first prompt"]
    /\ UNCHANGED uOthers

\* runAgent returns and its output is sent: after the first prompt the
\* loop is entered (queryLoop is set); inside the loop an output with
\* status error ends it.
AgentReturns(status) ==
    /\ sandbox.phase \in {"first prompt", "prompt"}
    /\ sandbox' = [sandbox EXCEPT !.phase =
            IF sandbox.phase = "prompt" /\ status = "error"
            THEN "exited on error" ELSE "waiting"]
    /\ UNCHANGED uOthers

\* One poll of waitForIpcMessageOrClose.
Poll ==
    /\ sandbox.phase = "waiting"
    /\ LET r == poll(sandbox, fsFiles, groupFolder[LoopGroup])
       IN sandbox' = r.sandbox /\ fsFiles' = r.files
    /\ UNCHANGED <<writer, hObserved, pipeReturn, hPipeCalls, uxOthers>>

\* The message written by call n waits in the input folder of the run.
MessageWaiting(n) ==
    \E f \in InputFiles(fsFiles, LoopGroup) : f.name = "message.json" /\ f.seq = n

\* closeStdin has not written the sentinel for the run: there is none in
\* the folder and the loop has consumed none.
NoCloseYet ==
    /\ ~consumeCloseSentinel(fsFiles, LoopGroup).found
    /\ sandbox.phase # "exited on close"

\* C40: a message that sendMessage has written for the run while closeStdin
\* had not yet written the sentinel is turned into a prompt by the input
\* loop (unless the loop ends on an error of the agent): the loop does not
\* exit on the sentinel with that message unread.
C40_PipedBeforeCloseIsConsumed ==
    \A n \in 1..MaxPipeCalls :
        (MessageWaiting(n) /\ NoCloseYet) ~>
            (n \in sandbox.prompts \/ sandbox.phase = "exited on error")

(***************************************************************************)
(* getRuntimeStrategy                                                      *)
(***************************************************************************)
\* The values of CONTAINER_RUNTIME handed in: undefined, the empty string,
\* the documented values, and strings that differ from them in case or by
\* a blank or that name something else.
ConfiguredValues ==
    {"auto", "none", "docker", "apple-container", "AUTO", "Auto", "NONE",
     "None", "DOCKER", " auto", "auto ", " none", "none ", "podman", "direct",
     "container", "native", "0", "false"}

ConfiguredRuntimes ==
    {[kind |-> "undefined", value |-> ""], [kind |-> "string", value |-> ""]}
        \cup {[kind |-> "string", value |-> v] : v \in ConfiguredValues}

RuntimeStrategy(useContainer, allowFallbackToDirect) == [useContainer |-> useContainer, allowFallbackToDirect |-> allowFallbackToDirect]

\* configuredRuntime || 'auto': undefined and the empty string are falsy.
orAuto(configuredRuntime) ==
    IF configuredRuntime.kind = "undefined" \/ configuredRuntime.value = ""
    THEN "auto" ELSE configuredRuntime.value

\* Variant that lets the automatic choice fall back also without a runtime.
getRuntimeStrategy_autoFirst(configuredRuntime, detectedRuntime) ==
    LET runtime == orAuto(configuredRuntime)
    IN IF runtime = "auto" THEN RuntimeStrategy(detectedRuntime # "none", TRUE)
       ELSE IF runtime = "none" \/ detectedRuntime = "none"
       THEN RuntimeStrategy(FALSE, FALSE)
       ELSE RuntimeStrategy(TRUE, FALSE)

getRuntimeStrategy(configuredRuntime, detectedRuntime) ==
    LET runtime == orAuto(configuredRuntime)
    IN IF runtime = "none" \/ detectedRuntime = "none"
       THEN RuntimeStrategy(FALSE, FALSE)
       ELSE IF runtime = "auto" THEN RuntimeStrategy(TRUE, TRUE)
       ELSE RuntimeStrategy(TRUE, FALSE)

NoStrategy == [called |-> FALSE, value |-> RuntimeStrategy(FALSE, FALSE)]

SIdle ==
    /\ argConfigured = [kind |-> "undefined", value |-> ""]
    /\ argDetected = "none"
    /\ strategyReturn = NoStrategy

SInit ==
    /\ argConfigured \in ConfiguredRuntimes
    /\ argDetected \in Runtimes
    /\ strategyReturn = NoStrategy

CallGetRuntimeStrategy ==
    /\ ~strategyReturn.called
    /\ strategyReturn' = [called |-> TRUE,
                          value |-> getRuntimeStrategy(argConfigured, argDetected)]
    /\ UNCHANGED <<argConfigured, argDetected, sOthers>>

\* No runtime was configured: the variable is undefined or empty.
Unset(configuredRuntime) ==
    configuredRuntime.kind = "undefined" \/ configuredRuntime.value = ""

\* C22: getRuntimeStrategy returns {false, false} when "none" is configured
\* or no runtime was detected; otherwise {true, true} when "auto" is
\* configured or nothing is; otherwise {true, false}.  So the fallback is
\* never allowed when no container is used.
C22_RuntimeStrategyTable ==
    strategyReturn.called =>
        /\ strategyReturn.value =
              IF (~Unset(argConfigured) /\ argConfigured.value = "none")
                    \/ argDetected = "none"
              THEN RuntimeStrategy(FALSE, FALSE)
              ELSE IF Unset(argConfigured) \/ argConfigured.value = "auto"
              THEN RuntimeStrategy(TRUE, TRUE)
              ELSE RuntimeStrategy(TRUE, FALSE)
        /\ strategyReturn.value.allowFallbackToDirect => strategyReturn.value.useContainer

\* Called with nothing configured and no runtime detected: no container and
\* no fallback.
C22_Witness ==
    /\ strategyReturn.called
    /\ argConfigured.kind = "undefined" /\ argDetected = "none"
    /\ strategyReturn.value = RuntimeStrategy(FALSE, FALSE)

\* ---------------------------------------------------------------------
\* Startup: main() up to the step after ensureContainerRuntimeReady
\* (container-runtime.ts, index.ts).

MaxContainers == 2

\* One row of `container ls`: whether it is a running babybot- container,
\* and whether `container stop` succeeds for it.
ContainerRows == [orphan : BOOLEAN, stopOk : BOOLEAN]

ContainerLists == UNION {[1..n -> ContainerRows] : n \in 0..MaxContainers}

\* What the commands run by the readiness step do on this machine.
StartupEnvs ==
    [runtime : Runtimes, statusOk : BOOLEAN, startOk : BOOLEAN,
     listOk : BOOLEAN, containers : ContainerLists]

Step(threw, logs, commands) ==
    [threw |-> threw, logs |-> logs, commands |-> commands]

\* try { status } catch { start }: a failing start is thrown on.
ensureAppleContainerSystemRunning(env) ==
    IF env.statusOk
    THEN Step(FALSE, <<"debug: already running">>, <<"system status">>)
    ELSE IF env.startOk
         THEN Step(FALSE, <<"info: starting", "info: started">>,
                   <<"system status", "system start">>)
         ELSE Step(TRUE, <<"info: starting">>, <<"system status", "system start">>)

RECURSIVE stopCommands(_)
stopCommands(rows) ==
    IF rows = <<>> THEN <<>>
    ELSE (IF Head(rows).orphan THEN <<"stop">> ELSE <<>>) \o stopCommands(Tail(rows))

\* The whole body is inside try/catch; a failing stop is ignored.
cleanupOrphanAppleContainers(env) ==
    IF ~env.listOk
    THEN Step(FALSE, <<"warn: cleanup failed">>, <<"ls">>)
    ELSE LET stops == stopCommands(env.containers)
         IN Step(FALSE,
                 IF Len(stops) > 0 THEN <<"info: stopped orphans">> ELSE <<>>,
                 <<"ls">> \o stops)

ensureContainerRuntimeReady(env) ==
    IF env.runtime # "apple-container" THEN Step(FALSE, <<>>, <<>>)
    ELSE LET running == ensureAppleContainerSystemRunning(env)
         IN IF running.threw THEN running
            ELSE LET cleanup == cleanupOrphanAppleContainers(env)
                 IN Step(FALSE, running.logs \o cleanup.logs,
                         running.commands \o cleanup.commands)

NotStarted == [called |-> FALSE, phase |-> "not started", logs |-> <<>>, commands |-> <<>>]

\* main(): a throw of the readiness step rejects main(), whose catch logs
\* 'Fatal error' and exits the process; otherwise initDatabase is next.
main(env) ==
    LET ready == ensureContainerRuntimeReady(env)
    IN IF ready.threw
       THEN [called |-> TRUE, phase |-> "exited",
             logs |-> ready.logs \o <<"error: Fatal error">>,
             commands |-> ready.commands]
       ELSE [called |-> TRUE, phase |-> "initDatabase",
             logs |-> ready.logs, commands |-> ready.commands]

EIdle ==
    /\ argEnv = [runtime |-> "none", statusOk |-> TRUE, startOk |-> TRUE,
                 listOk |-> TRUE, containers |-> <<>>]
    /\ startup = NotStarted

EInit ==
    /\ argEnv \in StartupEnvs
    /\ startup = NotStarted

CallMain ==
    /\ ~startup.called
    /\ startup' = main(argEnv)
    /\ UNCHANGED <<argEnv, eOthers>>

\* C24: whatever fails in the readiness step, main() goes on to the step
\* after it, and nothing of the failure reaches main()'s caller.
C24_ReadinessNeverFatal ==
    startup.called => startup.phase = "initDatabase"

\* ---------------------------------------------------------------------
\* EnhancedIPCSystem: one message sent with or without requiresAck, its
\* entry in pendingAcks and its timers (ipc-enhanced.ts).

MaxSends == 6

IPC_MAX_RETRIES == 3

NoPending == [present |-> FALSE, retries |-> 0, timeout |-> 0]

AIdle ==
    /\ requiresAck = FALSE
    /\ errorHandler = FALSE
    /\ pendingAcks = NoPending
    /\ ackTimeouts = {}
    /\ nextTimeout = 1
    /\ delayed = 0
    /\ hSent = 0
    /\ hErrors = 0
    /\ hAcked = FALSE

AInit ==
    /\ requiresAck \in BOOLEAN
    /\ errorHandler \in BOOLEAN
    /\ pendingAcks = NoPending
    /\ ackTimeouts = {}
    /\ nextTimeout = 1
    /\ delayed = 0
    /\ hSent = 0
    /\ hErrors = 0
    /\ hAcked = FALSE

\* trackForAck: a new timer and a new entry with retries 0, which replaces
\* the entry (and leaves armed the timer) that the table holds for the id.
trackForAck(A) ==
    [A EXCEPT !.pendingAcks = [present |-> TRUE, retries |-> 0, timeout |-> A.nextTimeout],
              !.ackTimeouts = @ \cup {A.nextTimeout},
              !.nextTimeout = @ + 1]

\* sendMessage: write the message file and, with requiresAck, track it.
sendMessage(A, writeOk) ==
    IF ~writeOk THEN A
    ELSE LET written == [A EXCEPT !.hSent = @ + 1]
         IN IF requiresAck THEN trackForAck(written) ELSE written

AckState ==
    [pendingAcks |-> pendingAcks, ackTimeouts |-> ackTimeouts,
     nextTimeout |-> nextTimeout, hSent |-> hSent]

SetAckState(A) ==
    /\ pendingAcks' = A.pendingAcks
    /\ ackTimeouts' = A.ackTimeouts
    /\ nextTimeout' = A.nextTimeout
    /\ hSent' = A.hSent

\* send(): the first sending of the message; a failed write is thrown on.
Send(writeOk) ==
    /\ hSent = 0 /\ ~pendingAcks.present /\ delayed = 0
    /\ writeOk
    /\ SetAckState(sendMessage(AckState, writeOk))
    /\ UNCHANGED <<requiresAck, errorHandler, delayed, hErrors, hAcked, aOthers>>

\* A timer set by trackForAck fires: handleAckTimeout up to its await of
\* RETRY_DELAY, or to its end when the retries are used up or no entry is
\* left.
AckTimeoutFires(t) ==
    /\ t \in ackTimeouts
    /\ ackTimeouts' = ackTimeouts \ {t}
    /\ IF ~pendingAcks.present
       THEN UNCHANGED <<pendingAcks, delayed, hErrors>>
       ELSE IF pendingAcks.retries < IPC_MAX_RETRIES
       THEN /\ pendingAcks' = [pendingAcks EXCEPT !.retries = @ + 1]
            /\ delayed' = delayed + 1
            /\ UNCHANGED hErrors
       ELSE /\ pendingAcks' = NoPending
            /\ hErrors' = IF errorHandler THEN hErrors + 1 ELSE hErrors
            /\ UNCHANGED delayed
    /\ UNCHANGED <<requiresAck, errorHandler, nextTimeout, hSent, hAcked, aOthers>>

\* handleAckTimeout after the await of RETRY_DELAY: sendMessage, which
\* tracks the message, and then trackForAck once more; a failed write is
\* logged.
RetryDelayElapses(writeOk) ==
    /\ delayed > 0
    /\ hSent < MaxSends
    /\ delayed' = delayed - 1
    /\ SetAckState(IF writeOk THEN trackForAck(sendMessage(AckState, writeOk))
                   ELSE AckState)
    /\ UNCHANGED <<requiresAck, errorHandler, hErrors, hAcked, aOthers>>

\* handleAck: the .ack file of the message appears.
HandleAck ==
    /\ hSent > 0 /\ ~hAcked
    /\ hAcked' = TRUE
    /\ IF pendingAcks.present
       THEN /\ ackTimeouts' = ackTimeouts \ {pendingAcks.timeout}
            /\ pendingAcks' = NoPending
       ELSE UNCHANGED <<pendingAcks, ackTimeouts>>
    /\ UNCHANGED <<requiresAck, errorHandler, nextTimeout, delayed, hSent,
                   hErrors, aOthers>>

\* C27: a message that is not acknowledged is sent again at most
\* IPC_MAX_RETRIES times, and when no timer and no retry is left for it, it
\* is out of pendingAcks and the error handler, if registered, was called.
C27_ResendsBounded ==
    (requiresAck /\ ~hAcked) =>
        /\ hSent <= 1 + IPC_MAX_RETRIES
        /\ (hSent > 0 /\ ackTimeouts = {} /\ delayed = 0) =>
               /\ ~pendingAcks.present
               /\ errorHandler => hErrors = 1

\* ---------------------------------------------------------------------
\* AgentSwarm: agents, the task queue and the assignment of pending tasks
\* to idle agents (agent-swarm.ts).  Swarms are enabled.

MaxTasks == 2

\* The maxAgents argument of the constructor.
maxAgents == 2

\* TaskPriority: LOW = 0, NORMAL = 1, HIGH = 2, CRITICAL = 3.
TaskPriority == 0..3

AgentIds == 1..maxAgents

MIdle ==
    /\ agents = <<>>
    /\ taskQueue = <<>>
    /\ hAssigned = <<>>

Swarm == [agents |-> agents, taskQueue |-> taskQueue, hAssigned |-> hAssigned]

SetSwarm(W) ==
    /\ agents' = W.agents
    /\ taskQueue' = W.taskQueue
    /\ hAssigned' = W.hAssigned

\* One step of a stable sort: task is put behind every task that the
\* comparator does not order behind it.
RECURSIVE insertSorted(_, _)
insertSorted(sorted, task) ==
    IF sorted = <<>> THEN <<task>>
    ELSE IF Head(sorted).priority >= task.priority
    THEN <<Head(sorted)>> \o insertSorted(Tail(sorted), task)
    ELSE <<task>> \o sorted

\* taskQueue.sort((a, b) => b.priority - a.priority): stable, higher
\* priority first.
RECURSIVE sortTaskQueue(_, _)
sortTaskQueue(queue, sorted) ==
    IF queue = <<>> THEN sorted
    ELSE sortTaskQueue(Tail(queue), insertSorted(sorted, Head(queue)))

RECURSIVE positionsWhere(_, _, _)
positionsWhere(list, status, k) ==
    IF k > Len(list) THEN <<>>
    ELSE (IF list[k].status = status THEN <<k>> ELSE <<>>)
            \o positionsWhere(list, status, k + 1)

\* The loop of assignTasks: the i-th pending task goes to the i-th idle
\* agent.
RECURSIVE assignLoop(_, _, _, _, _)
assignLoop(W, pendingTasks, idleAgents, i, n) ==
    IF i > n THEN W
    ELSE LET t == pendingTasks[i]
             a == idleAgents[i]
         IN assignLoop(
                [W EXCEPT !.taskQueue[t].status = "processing",
                          !.taskQueue[t].assignedAgent = W.agents[a].id,
                          !.agents[a].status = "busy",
                          !.agents[a].currentTask = W.taskQueue[t].id,
                          !.hAssigned = Append(@, W.taskQueue[t].id)],
                pendingTasks, idleAgents, i + 1, n)

assignTasks(W) ==
    LET pendingTasks == positionsWhere(W.taskQueue, "pending", 1)
        idleAgents == positionsWhere(W.agents, "idle", 1)
    IN assignLoop([W EXCEPT !.hAssigned = <<>>], pendingTasks, idleAgents, 1,
                  Min(Len(pendingTasks), Len(idleAgents)))

NO_TASK == 0
NO_AGENT == 0

\* registerAgent: a new idle agent at the end of the map.  The id is not
\* in the map and is not that of a deregistered agent still running a task.
RegisterAgent(id) ==
    /\ \A k \in 1..Len(agents) : agents[k].id # id
    /\ \A k \in 1..Len(taskQueue) :
          taskQueue[k].status = "processing" => taskQueue[k].assignedAgent # id
    /\ Len(agents) < maxAgents
    /\ agents' = Append(agents, [id |-> id, status |-> "idle", currentTask |-> NO_TASK])
    /\ UNCHANGED <<taskQueue, hAssigned, mOthers>>

\* deregisterAgent: the agent leaves the map, busy or not.
DeregisterAgent(id) ==
    /\ \E k \in 1..Len(agents) : agents[k].id = id
    /\ agents' = SelectSeq(agents, LAMBDA a : a.id # id)
    /\ UNCHANGED <<taskQueue, hAssigned, mOthers>>

\* Variant of submitTask that does not sort the queue.
submitTask_noSort(W, priority) ==
    assignTasks([W EXCEPT !.taskQueue =
        Append(@, [id |-> Len(W.taskQueue) + 1, priority |-> priority,
                   status |-> "pending", assignedAgent |-> NO_AGENT])])

\* submitTask: push, sort, assignTasks.
submitTask(W, priority) ==
    assignTasks([W EXCEPT !.taskQueue = sortTaskQueue(
        Append(@, [id |-> Len(W.taskQueue) + 1, priority |-> priority,
                   status |-> "pending", assignedAgent |-> NO_AGENT]), <<>>)])

SubmitTask(priority) ==
    /\ Len(taskQueue) < MaxTasks
    /\ SetSwarm(submitTask(Swarm, priority))
    /\ UNCHANGED mOthers

\* The agent object of a task is idle again (if it is still in the map).
releaseAgent(list, id) ==
    [k \in 1..Len(list) |->
        IF list[k].id = id
        THEN [list[k] EXCEPT !.status = "idle", !.currentTask = NO_TASK]
        ELSE list[k]]

\* executeTask after the agent run has returned: the task is completed or
\* failed, the agent is idle, and assignTasks is called.
TaskReturns(k, status) ==
    /\ k \in 1..Len(taskQueue)
    /\ taskQueue[k].status = "processing"
    /\ SetSwarm(assignTasks(
           [Swarm EXCEPT !.taskQueue[k].status = status,
                         !.agents = releaseAgent(@, taskQueue[k].assignedAgent)]))
    /\ UNCHANGED mOthers

\* The agent run rejects: the catch of assignTasks marks the task failed
\* and the agent idle; assignTasks is not called.
TaskRejects(k) ==
    /\ k \in 1..Len(taskQueue)
    /\ taskQueue[k].status = "processing"
    /\ taskQueue' = [taskQueue EXCEPT ![k].status = "failed"]
    /\ agents' = releaseAgent(agents, taskQueue[k].assignedAgent)
    /\ UNCHANGED <<hAssigned, mOthers>>

TaskOf(id) == CHOOSE k \in 1..Len(taskQueue) : taskQueue[k].id = id

\* C28: the tasks that a call of assignTasks assigns are assigned in order
\* of priority, highest first, and when one of them is assigned no task of
\* strictly higher priority is pending, whatever the order of submission.
C28_AssignedInPriorityOrder ==
    \A k \in 1..Len(hAssigned) :
        /\ \A j \in 1..(k - 1) :
              taskQueue[TaskOf(hAssigned[j])].priority
                  >= taskQueue[TaskOf(hAssigned[k])].priority
        /\ \A t \in 1..Len(taskQueue) :
              taskQueue[t].priority > taskQueue[TaskOf(hAssigned[k])].priority
                  => taskQueue[t].status # "pending"

\* A low task was submitted while no agent was registered; with one idle
\* agent the submission of a critical task assigned the critical task and
\* left the low one pending.
C28_Witness ==
    /\ Len(agents) = 1
    /\ Len(taskQueue) = 2
    /\ taskQueue[1].priority = 3 /\ taskQueue[1].id = 2
    /\ taskQueue[2].priority = 0 /\ taskQueue[2].id = 1
    /\ hAssigned = <<2>>
    /\ taskQueue[1].status = "processing"
    /\ taskQueue[2].status = "pending"

Init == QInit /\ PIdle /\ LIdle /\ CIdle /\ IInit /\ WInit /\ FIdle /\ RInit /\ XInit /\ SIdle /\ EIdle /\ AIdle /\ MIdle /\ UIdle
Next ==
    \/ SetProcessMessagesFn
    \/ \E g \in Groups : Enqueue(g)
    \/ \E g \in Groups : RunSettles(g, "true")
    \/ \E g \in Groups : RunSettles(g, "false")
    \/ \E g \in Groups : RunSettles(g, "throw")
    \/ \E t \in BagToSet(timers) : RetryTimerFires(t)
Spec == Init /\ [][Next]_vars

PathAllowedInit == QInit /\ PInit /\ LIdle /\ CIdle /\ IInit /\ WInit /\ FIdle /\ RInit /\ XInit /\ SIdle /\ EIdle /\ AIdle /\ MIdle /\ UIdle
PathAllowedNext == CallIsPathAllowed
SpecPathAllowed == PathAllowedInit /\ [][PathAllowedNext]_vars

LoadAllowlistInit == QInit /\ PIdle /\ LInit /\ CIdle /\ IInit /\ WInit /\ FIdle /\ RInit /\ XInit /\ SIdle /\ EIdle /\ AIdle /\ MIdle /\ UIdle
LoadAllowlistNext == CallLoadMountAllowlist
SpecLoadAllowlist == LoadAllowlistInit /\ [][LoadAllowlistNext]_vars

LaunchInit == QInit /\ PIdle /\ LIdle /\ CInit /\ IInit /\ WInit /\ FIdle /\ RInit /\ XInit /\ SIdle /\ EIdle /\ AIdle /\ MIdle /\ UIdle
LaunchNext == CallRunContainerAgent
SpecLaunch == LaunchInit /\ [][LaunchNext]_vars

IpcInit == QInit /\ PIdle /\ LIdle /\ CIdle /\ IInit /\ WInit /\ FIdle /\ RInit /\ XInit /\ SIdle /\ EIdle /\ AIdle /\ MIdle /\ UIdle
IpcNext ==
    \/ WriteMessageFile
    \/ WriteTaskFile
    \/ \E f \in inbound : HandleMessageFile(f, FALSE)
    \/ \E f \in inbound : HandleMessageFile(f, TRUE)
    \/ \E f \in inbound : HandleTaskFile(f, FALSE)
    \/ \E f \in inbound : HandleTaskFile(f, TRUE)
SpecIpc == IpcInit /\ [][IpcNext]_vars
WatcherInit == QInit /\ PIdle /\ LIdle /\ CIdle /\ IInit /\ WInit /\ FIdle /\ RInit /\ XInit /\ SIdle /\ EIdle /\ AIdle /\ MIdle /\ UIdle
WatcherNext ==
    \/ StartIpcWatcher
    \/ PlaceMessageFile
    \/ PlaceTaskFile
    \/ \E i \in 1..Len(pollers) : ScanFolder(i)
    \/ \E i \in 1..Len(pollers) : PollHandleFile(i, FALSE)
    \/ \E i \in 1..Len(pollers) : PollHandleFile(i, TRUE)
    \/ \E i \in 1..Len(pollers) : PollTimerFires(i)
SpecWatcher == WatcherInit /\ [][WatcherNext]_vars
PollErrorsInit == QInit /\ PIdle /\ LIdle /\ CIdle /\ IInit /\ WInit /\ FIdle /\ RInit /\ XInit /\ SIdle /\ EIdle /\ AIdle /\ MIdle /\ UIdle
PollErrorsNext ==
    \/ StartIpcWatcher
    \/ PlaceMessageFile
    \/ PlaceTaskFile
    \/ \E i \in 1..Len(pollers) : ReadBaseDirFails(i)
    \/ \E i \in 1..Len(pollers) : ScanFolder(i)
    \/ \E i \in 1..Len(pollers) : ListFolderFails(i)
    \/ \E i \in 1..Len(pollers) : PollHandleFile(i, FALSE)
    \/ \E i \in 1..Len(pollers) : PollHandleFile(i, TRUE)
    \/ \E i \in 1..Len(pollers) : PollTimerFires(i)
SpecPollErrors == PollErrorsInit /\ [][PollErrorsNext]_vars
InputLoopInit == QInit /\ PIdle /\ LIdle /\ CIdle /\ IInit /\ WInit /\ FIdle /\ RInit /\ XInit /\ SIdle /\ EIdle /\ AIdle /\ MIdle /\ UIdle
InputLoopNext ==
    \/ SetProcessMessagesFn
    \/ Enqueue(LoopGroup)
    \/ RegisterProcess(LoopGroup)
    \/ SendMessage(LoopGroup, FALSE)
    \/ CloseStdin(LoopGroup, FALSE)
    \/ SandboxStarts
    \/ AgentReturns("success")
    \/ AgentReturns("error")
    \/ Poll
\* main of the sandbox runs on: the agent returns and poll is called again
\* every 500 ms while the loop waits.
InputLoopFairness ==
    /\ WF_vars(SandboxStarts)
    /\ WF_vars(AgentReturns("success"))
    /\ WF_vars(Poll)
SpecInputLoop == InputLoopInit /\ [][InputLoopNext]_vars /\ InputLoopFairness
FramesInit == QInit /\ PIdle /\ LIdle /\ CIdle /\ IInit /\ WInit /\ FInit /\ RInit /\ XInit /\ SIdle /\ EIdle /\ AIdle /\ MIdle /\ UIdle
FramesNext == ReceiveStream
SpecFrames == FramesInit /\ [][FramesNext]_vars
RunInit == QInit /\ PIdle /\ LIdle /\ CIdle /\ IInit /\ WInit /\ FIdle /\ RInit /\ XInit /\ SIdle /\ EIdle /\ AIdle /\ MIdle /\ UIdle
RunNext ==
    \/ \E onOutput \in BOOLEAN : SpawnContainer(onOutput, TRUE)
    \/ \E onOutput \in BOOLEAN : SpawnContainer(onOutput, FALSE)
    \/ \E chunk \in RunChunks : StdoutData(chunk)
    \/ StderrData(<<"x">>)
    \/ CallbackStarts
    \/ CallbackSettles(TRUE)
    \/ CallbackSettles(FALSE)
    \/ TimeoutFires
    \/ \E code \in ExitCodes : ProcessCloses(code)
    \/ ChainSettles
SpecRun == RunInit /\ [][RunNext]_vars
\* The queue with a callback whose failures are throws; a callback that
\* returns false leaves the same states, apart from hThrown.
StarveInit == QInit /\ PIdle /\ LIdle /\ CIdle /\ IInit /\ WInit /\ FIdle /\ RInit /\ XInit /\ SIdle /\ EIdle /\ AIdle /\ MIdle /\ UIdle
StarveNext ==
    \/ SetProcessMessagesFn
    \/ \E g \in Groups : EnqueueAgain(g)
    \/ \E g \in Groups : RunCompletes(g)
\* Every run that is in progress eventually completes.
StarveFairness == \A g \in Groups : WF_vars(RunCompletes(g))
SpecStarve == StarveInit /\ [][StarveNext]_vars /\ StarveFairness

QueueThrowsInit == QInit /\ PIdle /\ LIdle /\ CIdle /\ IInit /\ WInit /\ FIdle /\ RInit /\ XInit /\ SIdle /\ EIdle /\ AIdle /\ MIdle /\ UIdle
QueueThrowsNext ==
    \/ SetProcessMessagesFn
    \/ \E g \in Groups : Enqueue(g)
    \/ \E g \in Groups : RunSettles(g, "true")
    \/ \E g \in Groups : RunThrows(g)
    \/ \E t \in BagToSet(timers) : RetryTimerFires(t)
SpecQueueThrows == QueueThrowsInit /\ [][QueueThrowsNext]_vars
PipeInit == QInit /\ PIdle /\ LIdle /\ CIdle /\ IInit /\ WInit /\ FIdle /\ RInit /\ XInit /\ SIdle /\ EIdle /\ AIdle /\ MIdle /\ UIdle
PipeNext ==
    \/ SetProcessMessagesFn
    \/ \E g \in Groups : Enqueue(g)
    \/ \E g \in Groups : RunSettles(g, "true")
    \/ \E g \in Groups : RegisterProcess(g)
    \/ \E g \in Groups : SendMessage(g, FALSE)
    \/ \E g \in Groups : SendMessage(g, TRUE)
    \/ \E g \in Groups : CloseStdin(g, FALSE)
    \/ \E g \in Groups : CloseStdin(g, TRUE)
SpecPipe == PipeInit /\ [][PipeNext]_vars
IpcWritesInit == QInit /\ PIdle /\ LIdle /\ CIdle /\ IInit /\ WInit /\ FIdle /\ RInit /\ XInit /\ SIdle /\ EIdle /\ AIdle /\ MIdle /\ UIdle
IpcWritesNext ==
    \/ \E op \in WriteOps, ns \in IpcFolders : BeginWrite(op, ns)
    \/ OpenForWrite
    \/ WriteData
    \/ RenameIntoPlace
    \/ \E f \in fsFiles : ReadByFinalName(f)
SpecIpcWrites == IpcWritesInit /\ [][IpcWritesNext]_vars
StrategyInit == QInit /\ PIdle /\ LIdle /\ CIdle /\ IInit /\ WInit /\ FIdle /\ RInit /\ XInit /\ SInit /\ EIdle /\ AIdle /\ MIdle /\ UIdle
StrategyNext ==
    \/ CallGetRuntimeStrategy
SpecStrategy == StrategyInit /\ [][StrategyNext]_vars
StartupInit == QInit /\ PIdle /\ LIdle /\ CIdle /\ IInit /\ WInit /\ FIdle /\ RInit /\ XInit /\ SIdle /\ EInit /\ AIdle /\ MIdle /\ UIdle
StartupNext ==
    \/ CallMain
SpecStartup == StartupInit /\ [][StartupNext]_vars
AckInit == QInit /\ PIdle /\ LIdle /\ CIdle /\ IInit /\ WInit /\ FIdle /\ RInit /\ XInit /\ SIdle /\ EIdle /\ AInit /\ MIdle /\ UIdle
AckNext ==
    \/ Send(TRUE)
    \/ \E t \in ackTimeouts : AckTimeoutFires(t)
    \/ RetryDelayElapses(TRUE)
    \/ RetryDelayElapses(FALSE)
    \/ HandleAck
SpecAck == AckInit /\ [][AckNext]_vars
SwarmInit == QInit /\ PIdle /\ LIdle /\ CIdle /\ IInit /\ WInit /\ FIdle /\ RInit /\ XInit /\ SIdle /\ EIdle /\ AIdle /\ MIdle /\ UIdle
SwarmNext ==
    \/ \E id \in AgentIds : RegisterAgent(id)
    \/ \E id \in AgentIds : DeregisterAgent(id)
    \/ \E priority \in TaskPriority : SubmitTask(priority)
    \/ \E k \in 1..MaxTasks : TaskReturns(k, "completed")
    \/ \E k \in 1..MaxTasks : TaskReturns(k, "failed")
    \/ \E k \in 1..MaxTasks : TaskRejects(k)
SpecSwarm == SwarmInit /\ [][SwarmNext]_vars
====
